---------------------------- MODULE Spec2Model ----------------------------
(***************************************************************************)
(* A model of the chess session server: the lobby (server/lobby.py), the   *)
(* per-game session engine (server/game_session.py) and the connection     *)
(* dispatcher (server/server.py).                                          *)
(*                                                                         *)
(* Client ids and game ids are uuid4 strings in the code, fresh on every   *)
(* allocation; the model allocates them from the counters nextClient and   *)
(* nextGame, so an id is never reused.  Wall-clock time (time.time()) is   *)
(* the integer variable now; a missing timestamp (Python None) is None.    *)
(* The rules engine (python-chess) is not part of the repository: the      *)
(* model keeps the move stack and derives turn, legality and termination   *)
(* from it with a small abstract engine (the operators under "rules        *)
(* engine").                                                               *)
(***************************************************************************)
EXTENDS Integers, Sequences, FiniteSets, TLC

\* ------------------------------------------------------------- bounds
MaxClients == 3
MaxGames == 2
MaxTime == 3
MaxPly == 3
MaxChat == 1

\* ---------------------------------------------------------- constants
None == -1
DEFAULT_TIME_CONTROL == 2
TIME_INCREMENT == 1
WAITING == "waiting"
PLAYING == "playing"
FINISHED == "finished"
WHITE == "white"
BLACK == "black"

ClientIds == 1..MaxClients
GameIds == 1..MaxGames

VARIABLES
    now,            \* time.time()
    clients,        \* ChessServer.clients: the connected client ids
    nextClient,     \* number of client ids allocated so far
    lobby,          \* the GameLobby object
    nextGame,       \* number of game ids allocated so far
    game_sessions,  \* ChessServer.game_sessions: game id -> GameSession
    sent,           \* the messages the last step sent, in order
    threads,        \* the locals of the threads that are inside a method
    wire            \* one connection: the message, text and bytes in transit

vars == <<now, clients, nextClient, lobby, nextGame, game_sessions, sent, threads, wire>>

\* ------------------------------------------------------------ helpers
Put(f, k, v) == [x \in (DOMAIN f) \cup {k} |-> IF x = k THEN v ELSE f[x]]
Del(f, k) == [x \in (DOMAIN f) \ {k} |-> f[x]]
EmptyMap == [x \in {} |-> 0]
Max(a, b) == IF a >= b THEN a ELSE b
InSeq(x, s) == \E i \in 1..Len(s) : s[i] = x

\* list.remove(x): drops the first occurrence of x
RECURSIVE ListRemove(_, _)
ListRemove(s, x) ==
    IF s = <<>> THEN <<>>
    ELSE IF Head(s) = x THEN Tail(s)
    ELSE <<Head(s)>> \o ListRemove(Tail(s), x)

\* ============================================================== lobby
\* GameLobby.__init__
NewLobby ==
    [games |-> EmptyMap,
     player_game_map |-> EmptyMap,
     spectator_game_map |-> EmptyMap,
     spectators |-> EmptyMap,
     client_game_map |-> EmptyMap]

Game(state, players, spectators) ==
    [state |-> state, players |-> players, spectators |-> spectators]

\* GameLobby.create_game, with game_id the fresh id of generate_unique_id()
create_game(L, game_id, player_id) ==
    [L EXCEPT !.games = Put(@, game_id, Game(WAITING, <<player_id>>, {})),
              !.player_game_map = Put(@, player_id, game_id)]

\* GameLobby.join_game: the lobby after the call and the value returned
join_game_nostate(L, game_id, player_id) ==
    IF game_id \notin DOMAIN L.games THEN [lobby |-> L, ok |-> FALSE]
    ELSE LET g == L.games[game_id]
             players == Append(g.players, player_id)
         IN IF Len(g.players) >= 2 THEN [lobby |-> L, ok |-> FALSE]
            ELSE [lobby |->
                    [L EXCEPT !.games[game_id] =
                                  Game(IF Len(players) = 2 THEN PLAYING ELSE g.state,
                                       players, g.spectators),
                              !.player_game_map = Put(@, player_id, game_id)],
                  ok |-> TRUE]

join_game_noplaying(L, game_id, player_id) ==
    IF game_id \notin DOMAIN L.games THEN [lobby |-> L, ok |-> FALSE]
    ELSE LET g == L.games[game_id]
             players == Append(g.players, player_id)
         IN IF g.state # WAITING THEN [lobby |-> L, ok |-> FALSE]
            ELSE IF Len(g.players) >= 2 THEN [lobby |-> L, ok |-> FALSE]
            ELSE [lobby |->
                    [L EXCEPT !.games[game_id] = Game(g.state, players, g.spectators),
                              !.player_game_map = Put(@, player_id, game_id)],
                  ok |-> TRUE]

join_game(L, game_id, player_id) ==
    IF game_id \notin DOMAIN L.games THEN [lobby |-> L, ok |-> FALSE]
    ELSE LET g == L.games[game_id]
             players == Append(g.players, player_id)
         IN IF g.state # WAITING THEN [lobby |-> L, ok |-> FALSE]
            ELSE IF Len(g.players) >= 2 THEN [lobby |-> L, ok |-> FALSE]
            ELSE [lobby |->
                    [L EXCEPT !.games[game_id] =
                                  Game(IF Len(players) = 2 THEN PLAYING ELSE g.state,
                                       players, g.spectators),
                              !.player_game_map = Put(@, player_id, game_id)],
                  ok |-> TRUE]

\* The games a join_random_game scan would join: dict order is insertion
\* order, which is allocation order of the ids.
OpenGames(L) ==
    {g \in DOMAIN L.games :
        L.games[g].state = WAITING /\ Len(L.games[g].players) < 2}

\* join_random_game without the scan of the waiting games
join_random_game_create(L, fresh_id, player_id) ==
    [lobby |-> create_game(L, fresh_id, player_id), game |-> fresh_id,
     created |-> TRUE]

\* GameLobby.join_random_game: the lobby after the call and the id returned
join_random_game(L, fresh_id, player_id) ==
    IF OpenGames(L) # {}
    THEN LET g == CHOOSE x \in OpenGames(L) : \A y \in OpenGames(L) : x <= y
         IN [lobby |-> join_game(L, g, player_id).lobby, game |-> g,
             created |-> FALSE]
    ELSE [lobby |-> create_game(L, fresh_id, player_id), game |-> fresh_id,
          created |-> TRUE]

\* GameLobby.leave_game: the lobby after the call, and the exception the
\* call raises instead, if any (list.remove, a dict lookup, set.remove)
leave_game(L, client_id) ==
    IF client_id \in DOMAIN L.player_game_map
    THEN LET game_id == L.player_game_map[client_id]
         IN IF game_id \notin DOMAIN L.games
            THEN [lobby |-> L, raised |-> "KeyError"]
            ELSE IF ~InSeq(client_id, L.games[game_id].players)
            THEN [lobby |-> L, raised |-> "ValueError"]
            ELSE LET g == L.games[game_id]
                     players == ListRemove(g.players, client_id)
                     L1 == [L EXCEPT !.player_game_map = Del(@, client_id)]
                 IN [lobby |->
                        IF players = <<>>
                        THEN [L1 EXCEPT !.games = Del(@, game_id)]
                        ELSE IF Len(players) = 1 /\ g.state = PLAYING
                        THEN [L1 EXCEPT !.games[game_id] =
                                            Game(FINISHED, players, g.spectators)]
                        ELSE [L1 EXCEPT !.games[game_id] =
                                            Game(g.state, players, g.spectators)],
                     raised |-> ""]
    ELSE IF client_id \in DOMAIN L.client_game_map
    THEN LET game_id == L.client_game_map[client_id]
             L1 == [L EXCEPT !.client_game_map = Del(@, client_id)]
         IN [lobby |->
                IF game_id \in DOMAIN L.spectators
                   /\ client_id \in L.spectators[game_id]
                THEN [L1 EXCEPT !.spectators[game_id] = @ \ {client_id}]
                ELSE L1,
             raised |-> ""]
    ELSE IF client_id \in DOMAIN L.spectator_game_map
    THEN LET game_id == L.spectator_game_map[client_id]
         IN IF game_id \notin DOMAIN L.games
            THEN [lobby |-> L, raised |-> "KeyError"]
            ELSE IF client_id \notin L.games[game_id].spectators
            THEN [lobby |-> L, raised |-> "KeyError"]
            ELSE [lobby |->
                    [L EXCEPT !.games[game_id].spectators = @ \ {client_id},
                              !.spectator_game_map = Del(@, client_id)],
                  raised |-> ""]
    ELSE [lobby |-> L, raised |-> ""]

\* GameLobby.spectate_game
spectate_game(L, game_id, spectator_id) ==
    IF game_id \notin DOMAIN L.games THEN [lobby |-> L, ok |-> FALSE]
    ELSE LET cur == IF game_id \in DOMAIN L.spectators
                    THEN L.spectators[game_id] ELSE {}
         IN [lobby |->
                [L EXCEPT !.spectators = Put(@, game_id, cur \cup {spectator_id}),
                          !.client_game_map = Put(@, spectator_id, game_id)],
             ok |-> TRUE]

\* GameLobby.get_game_id (None when the client is in no game)
get_game_id(L, client_id) ==
    IF client_id \in DOMAIN L.player_game_map THEN L.player_game_map[client_id]
    ELSE IF client_id \in DOMAIN L.client_game_map THEN L.client_game_map[client_id]
    ELSE IF client_id \in DOMAIN L.spectator_game_map
    THEN L.spectator_game_map[client_id]
    ELSE None

\* ======================================================= rules engine
\* The python-chess board, reduced to what the session reads from it.  The
\* board is its move stack (a sequence of UCI strings); the side to move is
\* the parity of its length.  Four legal move shapes stand for all of
\* chess: a quiet move, a mating move, a stalemating move and a capture
\* that leaves insufficient material (after which play can go on, though
\* is_game_over() stays true).  No position is terminal before both sides
\* have moved.
Files == {"a", "b", "c", "d", "e", "f", "g", "h"}
Ranks == {"1", "2", "3", "4", "5", "6", "7", "8"}
SQUARE_NAMES == {f \o r : f \in Files, r \in Ranks}

Move(from_square, to_square, promotion) ==
    [from_square |-> from_square, to_square |-> to_square, promotion |-> promotion]

\* The quiet moves: the knights go out and come back, White's then Black's
QuietMoves ==
    <<Move("g1", "f3", ""), Move("g8", "f6", ""),
      Move("f3", "g1", ""), Move("f6", "g8", "")>>
QuietMove(history) == QuietMoves[(Len(history) % 4) + 1]
MateMove == Move("d8", "h4", "")
StaleMove == Move("h7", "h8", "")
DrawMove == Move("b2", "c3", "")

\* chess.Move.uci(): the squares, then the promotion piece's symbol if any
Uci(move) == move.from_square \o move.to_square \o move.promotion

\* board.turn
Turn(history) == IF Len(history) % 2 = 0 THEN "white" ELSE "black"

is_checkmate(history) ==
    history # <<>> /\ history[Len(history)] = Uci(MateMove)
is_stalemate(history) ==
    history # <<>> /\ history[Len(history)] = Uci(StaleMove)
is_insufficient_material(history) ==
    \E i \in 1..Len(history) : history[i] = Uci(DrawMove)
is_game_over(history) ==
    is_checkmate(history) \/ is_stalemate(history)
        \/ is_insufficient_material(history)

\* board.legal_moves
legal_moves(history) ==
    IF is_checkmate(history) \/ is_stalemate(history) THEN {}
    ELSE IF is_insufficient_material(history) THEN {QuietMove(history)}
    ELSE IF history # <<>>
    THEN {QuietMove(history), MateMove, StaleMove, DrawMove}
    ELSE {QuietMove(history)}

\* ============================================================ session
Other(color) == IF color = WHITE THEN BLACK ELSE WHITE

RECURSIVE SetToSeq(_)
SetToSeq(S) ==
    IF S = {} THEN <<>>
    ELSE LET m == CHOOSE x \in S : \A y \in S : x <= y
         IN <<m>> \o SetToSeq(S \ {m})

\* GameSession.__init__(game_id, player1_id)
NewSession(player1_id) ==
    [history |-> <<>>,
     player_roles |-> Put(EmptyMap, player1_id, WHITE),
     spectators |-> {},
     client_sockets |-> {},
     time_remaining |-> [white |-> DEFAULT_TIME_CONTROL,
                         black |-> DEFAULT_TIME_CONTROL],
     last_move_time |-> None,
     chat_history |-> <<>>,
     start_time |-> None,
     end_time |-> None,
     running |-> TRUE,
     clock_threads |-> 0,
     last_broadcast_time |-> None]

RoleHolders(s, color) == {p \in DOMAIN s.player_roles : s.player_roles[p] = color}
PlayerOf(s, color) ==
    IF RoleHolders(s, color) = {} THEN None
    ELSE CHOOSE p \in RoleHolders(s, color) : TRUE

\* get_result with the clocks looked at before stalemate and material
get_result_clocks_first(checkmate, turn, stalemate, insufficient, time_remaining) ==
    IF checkmate
    THEN (IF turn = "black" THEN "1-0" ELSE "0-1")
    ELSE IF time_remaining[WHITE] <= 0 THEN "0-1"
    ELSE IF time_remaining[BLACK] <= 0 THEN "1-0"
    ELSE "1/2-1/2"

\* GameSession.get_result on what it reads: the board's is_checkmate(),
\* turn, is_stalemate(), is_insufficient_material() and the two clocks
get_result_on(checkmate, turn, stalemate, insufficient, time_remaining) ==
    IF checkmate
    THEN (IF turn = "black" THEN "1-0" ELSE "0-1")
    ELSE IF stalemate \/ insufficient
    THEN "1/2-1/2"
    ELSE IF time_remaining[WHITE] <= 0 THEN "0-1"
    ELSE IF time_remaining[BLACK] <= 0 THEN "1-0"
    ELSE "1/2-1/2"

\* GameSession.get_result
get_result(s) ==
    get_result_on(is_checkmate(s.history), Turn(s.history),
                  is_stalemate(s.history), is_insufficient_material(s.history),
                  s.time_remaining)

\* One message of each type, as the payload the code builds.
UpdateMsg(to, g, s) ==
    [type |-> "UPDATE", to |-> to, game |-> g,
     turn |-> Turn(s.history),
     is_game_over |-> is_game_over(s.history),
     result |-> get_result(s),
     time_remaining |-> s.time_remaining,
     move_history |-> s.history,
     white_player |-> PlayerOf(s, WHITE),
     black_player |-> PlayerOf(s, BLACK)]

GameOverMsg(to, g, s) ==
    [type |-> "GAME_OVER", to |-> to, game |-> g,
     result |-> get_result(s),
     white_player |-> PlayerOf(s, WHITE),
     black_player |-> PlayerOf(s, BLACK),
     end_time |-> s.end_time]

ErrorMsg(to, text) == [type |-> "ERROR", to |-> to, message |-> text]

ChatMsg(to, g, sender, text) ==
    [type |-> "CHAT", to |-> to, game |-> g, sender |-> sender, message |-> text]

\* The fan-out loops send to the sockets in dict order; the model sends in
\* the order of the ids.
Recipients(s) == SetToSeq(s.client_sockets)

\* GameSession.broadcast_state
broadcast_state(g, s) ==
    [i \in 1..Len(Recipients(s)) |-> UpdateMsg(Recipients(s)[i], g, s)]

\* GameSession.broadcast_game_over
broadcast_game_over(g, s) ==
    [i \in 1..Len(Recipients(s)) |-> GameOverMsg(Recipients(s)[i], g, s)]

\* GameSession.add_chat_message
add_chat_message(s, sender_id, message) ==
    [s EXCEPT !.chat_history = Append(@, <<sender_id, message>>)]

\* Lines 290-296: the display name (role "" is player_role=None)
DisplayName_plain(sender_id, player_role) == sender_id

DisplayName(sender_id, player_role) ==
    IF player_role = WHITE THEN sender_id \o " [White]"
    ELSE IF player_role = BLACK THEN sender_id \o " [Black]"
    ELSE sender_id \o " [Spectator]"

\* GameSession.broadcast_chat: the messages of the fan-out (the chat log
\* is appended to by add_chat_message)
broadcast_chat(g, s, sender, role, text) ==
    LET display == DisplayName(sender, role)
    IN [i \in 1..Len(Recipients(s)) |-> ChatMsg(Recipients(s)[i], g, display, text)]

\* utils.send_data on the socket of client `to`: True when the bytes went
\* out, False when sendall raised; broken is the set of clients whose
\* socket fails
send_data(to, broken) == to \notin broken

\* The send loops of broadcast_state, broadcast_chat and
\* broadcast_game_over: every message of the fan-out is tried in turn, a
\* failed send is logged and the loop goes on.  The result is the list of
\* attempts, each with its outcome.
RECURSIVE SendLoop_abort(_, _)
SendLoop_abort(msgs, broken) ==
    IF msgs = <<>> THEN <<>>
    ELSE IF send_data(Head(msgs).to, broken)
    THEN <<[msg |-> Head(msgs), ok |-> TRUE]>> \o SendLoop_abort(Tail(msgs), broken)
    ELSE <<[msg |-> Head(msgs), ok |-> FALSE]>>

RECURSIVE SendLoop(_, _)
SendLoop(msgs, broken) ==
    IF msgs = <<>> THEN <<>>
    ELSE <<[msg |-> Head(msgs), ok |-> send_data(Head(msgs).to, broken)]>>
             \o SendLoop(Tail(msgs), broken)

\* success_count of a send loop
SuccessCount(attempts) == Cardinality({i \in 1..Len(attempts) : attempts[i].ok})

\* GameSession.send_error
send_error_all(s, client_id, text) ==
    [i \in 1..Len(Recipients(s)) |-> ErrorMsg(Recipients(s)[i], text)]

send_error(s, client_id, text) ==
    IF client_id \notin s.client_sockets THEN <<>>
    ELSE <<ErrorMsg(client_id, text)>>

\* add_player that hands out BLACK again when both roles are assigned
add_player_overwrite(s, player_id) ==
    IF player_id \notin DOMAIN s.player_roles
    THEN LET role == IF RoleHolders(s, WHITE) = {} THEN WHITE ELSE BLACK
         IN [s |-> [s EXCEPT !.player_roles = Put(@, player_id, role),
                             !.client_sockets = @ \cup {player_id}],
             role |-> role]
    ELSE [s |-> [s EXCEPT !.client_sockets = @ \cup {player_id}],
          role |-> s.player_roles[player_id]]

\* GameSession.add_player: the session after the call and the role returned
add_player(s, player_id) ==
    IF player_id \notin DOMAIN s.player_roles
    THEN IF RoleHolders(s, WHITE) = {}
         THEN [s |-> [s EXCEPT !.player_roles = Put(@, player_id, WHITE),
                               !.client_sockets = @ \cup {player_id}],
               role |-> WHITE]
         ELSE IF RoleHolders(s, BLACK) = {}
         THEN [s |-> [s EXCEPT !.player_roles = Put(@, player_id, BLACK),
                               !.client_sockets = @ \cup {player_id}],
               role |-> BLACK]
         ELSE [s |-> s, role |-> ""]
    ELSE [s |-> [s EXCEPT !.client_sockets = @ \cup {player_id}],
          role |-> s.player_roles[player_id]]

\* GameSession.add_spectator
add_spectator(g, s, spectator_id) ==
    LET s1 == [s EXCEPT !.spectators = @ \cup {spectator_id},
                        !.client_sockets = @ \cup {spectator_id}]
        welcome_msg == ToString(spectator_id) \o " joined as a spectator"
    IN [s |-> add_chat_message(s1, DisplayName("System", ""), welcome_msg),
        msgs |-> broadcast_chat(g, s1, "System", "", welcome_msg)]

\* GameSession.remove_client
remove_client_norun(s, client_id) ==
    [s EXCEPT !.player_roles = Del(@, client_id),
              !.spectators = @ \ {client_id},
              !.client_sockets = @ \ {client_id}]

remove_client(s, client_id) ==
    LET s1 == [s EXCEPT !.player_roles = Del(@, client_id),
                        !.spectators = @ \ {client_id},
                        !.client_sockets = @ \ {client_id}]
    IN IF DOMAIN s1.player_roles = {} THEN [s1 EXCEPT !.running = FALSE] ELSE s1

\* GameSession.start_game at time t: the state broadcast, then the clock
\* thread is started
start_game(g, s, t) ==
    LET s1 == [s EXCEPT !.start_time = t, !.last_move_time = t]
    IN [s |-> [s1 EXCEPT !.clock_threads = @ + 1, !.last_broadcast_time = t],
        msgs |-> broadcast_state(g, s1)]

\* ------------------------------------------------------- process_move
\* data.get("move") when the message carries no move
MissingMove == "<missing>"
NoMove == Move("", "", "")

\* a promotion map that knows the queen only
promotion_map_queen == [q |-> "queen"]

promotion_map == [q |-> "queen", r |-> "rook", b |-> "bishop", n |-> "knight"]

\* Lines 156-183: the token parsed into a move, or the way parsing fails.
\* A 5-character token is parsed by hand (bad squares raise out of the
\* method body); any other token goes through chess.Move.from_uci.
parse_move(tok) ==
    IF tok = MissingMove THEN [status |-> "exception", move |-> NoMove]
    ELSE IF Len(tok) = 5
    THEN IF SubSeq(tok, 1, 2) \notin SQUARE_NAMES
            \/ SubSeq(tok, 3, 4) \notin SQUARE_NAMES
         THEN [status |-> "exception", move |-> NoMove]
         ELSE IF SubSeq(tok, 5, 5) \notin DOMAIN promotion_map
         THEN [status |-> "bad_promotion", move |-> NoMove]
         ELSE [status |-> "ok",
               move |-> Move(SubSeq(tok, 1, 2), SubSeq(tok, 3, 4), SubSeq(tok, 5, 5))]
    ELSE IF Len(tok) = 4
            /\ SubSeq(tok, 1, 2) \in SQUARE_NAMES
            /\ SubSeq(tok, 3, 4) \in SQUARE_NAMES
            /\ SubSeq(tok, 1, 2) # SubSeq(tok, 3, 4)
    THEN [status |-> "ok", move |-> Move(SubSeq(tok, 1, 2), SubSeq(tok, 3, 4), "")]
    ELSE [status |-> "bad_format", move |-> NoMove]

\* Lines 147-151: the caller's color is not the color to move
WrongTurn_never(s, player_id) == FALSE

WrongTurn(s, player_id) ==
    LET current_turn == Turn(s.history)
        player_role == s.player_roles[player_id]
    IN \/ current_turn = "white" /\ player_role # WHITE
       \/ current_turn = "black" /\ player_role # BLACK

\* Line 195
TimeSpent(s, current_time) ==
    IF s.last_move_time # None THEN current_time - s.last_move_time ELSE 0

\* Lines 194-204: the mover's clock charged and credited at current_time
charge_move(s, player_role, current_time) ==
    [s EXCEPT !.time_remaining[player_role] =
                  Max(0, @ - TimeSpent(s, current_time)) + TIME_INCREMENT,
              !.last_move_time = current_time]

\* Lines 206-218: the move pushed, the end recorded, the broadcasts
apply_move(g, s, move, current_time) ==
    LET s1 == [s EXCEPT !.history = Append(@, Uci(move))]
    IN IF is_game_over(s1.history)
       THEN LET s2 == [s1 EXCEPT !.end_time = current_time]
            IN [s |-> s2,
                msgs |-> broadcast_game_over(g, s2) \o broadcast_state(g, s2)]
       ELSE [s |-> s1, msgs |-> broadcast_state(g, s1)]

Rejected(s, why, msgs) == [s |-> s, msgs |-> msgs, ok |-> FALSE, why |-> why]

\* GameSession.process_move at time current_time: the session after the
\* call, the messages sent, the value returned and the failure class
process_move(g, s, player_id, tok, current_time) ==
    IF player_id \notin DOMAIN s.player_roles
    THEN Rejected(s, "NotAPlayer",
                  send_error(s, player_id, "You are not a player in this game"))
    ELSE IF WrongTurn(s, player_id)
    THEN Rejected(s, "WrongTurn", send_error(s, player_id, "It's not your turn"))
    ELSE LET p == parse_move(tok)
         IN IF p.status = "exception"
            THEN Rejected(s, "Exception",
                          send_error(s, player_id, "Server error processing move"))
            ELSE IF p.status = "bad_promotion"
            THEN Rejected(s, "MalformedMove",
                          send_error(s, player_id, "Invalid promotion piece"))
            ELSE IF p.status = "bad_format"
            THEN Rejected(s, "MalformedMove",
                          send_error(s, player_id, "Invalid move format"))
            ELSE IF p.move \notin legal_moves(s.history)
            THEN Rejected(s, "IllegalMove",
                          send_error(s, player_id, "That move is not legal"))
            ELSE LET player_role == s.player_roles[player_id]
                     r == apply_move(g, charge_move(s, player_role, current_time),
                                     p.move, current_time)
                 IN [s |-> r.s, msgs |-> r.msgs, ok |-> TRUE, why |-> ""]

\* -------------------------------------------------- time_control_loop
\* the loop condition without the test of end_time
ClockAlive_running(s) == s.clock_threads > 0 /\ s.running

\* while self.running and not self.end_time, in a started thread
ClockAlive(s) == s.clock_threads > 0 /\ s.running /\ s.end_time = None

\* One iteration of the loop of time_control_loop at time current_time
\* (lines 51-82); broadcast_interval is one unit of time.
time_control_tick_noflag(g, s, current_time) ==
    LET color == IF Turn(s.history) = "white" THEN WHITE ELSE BLACK
        time_since_last_update == current_time - s.last_move_time
        s1 == [s EXCEPT !.time_remaining[color] =
                            Max(0, @ - time_since_last_update),
                        !.last_move_time = current_time]
    IN IF current_time - s.last_broadcast_time >= 1
       THEN [s |-> [s1 EXCEPT !.last_broadcast_time = current_time],
             msgs |-> broadcast_state(g, s1)]
       ELSE [s |-> s1, msgs |-> <<>>]

time_control_tick(g, s, current_time) ==
    LET color == IF Turn(s.history) = "white" THEN WHITE ELSE BLACK
        time_since_last_update == current_time - s.last_move_time
        s1 == [s EXCEPT !.time_remaining[color] =
                            Max(0, @ - time_since_last_update),
                        !.last_move_time = current_time]
    IN IF s1.time_remaining[color] <= 0
       THEN LET s2 == [s1 EXCEPT !.time_remaining[color] = 0,
                                 !.end_time = current_time]
            IN [s |-> s2, msgs |-> broadcast_game_over(g, s2)]
       ELSE IF current_time - s.last_broadcast_time >= 1
       THEN [s |-> [s1 EXCEPT !.last_broadcast_time = current_time],
             msgs |-> broadcast_state(g, s1)]
       ELSE [s |-> s1, msgs |-> <<>>]

\* ========================================================= dispatcher
\* The server's shared state as one value: S.clients, S.lobby,
\* S.game_sessions.  A handler is an operator from that value to the value
\* after the handler and the messages it sent.
Server(cl, L, gs) == [clients |-> cl, lobby |-> L, game_sessions |-> gs]

Out(S, msgs) == [S |-> S, msgs |-> msgs]

LobbySnapshot(L) ==
    [g \in DOMAIN L.games |->
        [status |-> L.games[g].state, players |-> L.games[g].players]]

\* ChessServer.broadcast_lobby_update
broadcast_lobby_update_none(S) == <<>>

broadcast_lobby_update(S) ==
    LET to == SetToSeq(S.clients)
    IN [i \in 1..Len(to) |->
           [type |-> "LOBBY_UPDATE", to |-> to[i], games |-> LobbySnapshot(S.lobby)]]

ReplyMsg(type, to, g, role) == [type |-> type, to |-> to, game |-> g, role |-> role]

\* The GAME_STARTED payload of lines 140-148: turn and move_history are
\* literals, board_fen and time_remaining are read from the session.
GameStartedMsg(to, g, s, white, black) ==
    [type |-> "GAME_STARTED", to |-> to, game |-> g,
     board |-> s.history,
     white_player |-> white, black_player |-> black,
     time_remaining |-> s.time_remaining,
     turn |-> "white", move_history |-> <<>>]

\* ChessServer.handle_client_disconnect
handle_client_disconnect(S, client_id) ==
    LET S1 == [S EXCEPT !.clients = @ \ {client_id}]
        game_id == get_game_id(S1.lobby, client_id)
    IN IF game_id # None /\ game_id \in DOMAIN S1.game_sessions
       THEN LET r == leave_game(S1.lobby, client_id)
                s1 == remove_client(S1.game_sessions[game_id], client_id)
                S2 == [S1 EXCEPT !.lobby = r.lobby]
            IN IF r.raised # "" THEN Out(S1, <<>>)
               ELSE IF DOMAIN s1.player_roles = {}
               THEN LET S3 == [S2 EXCEPT !.game_sessions = Del(@, game_id)]
                    IN Out(S3, broadcast_lobby_update(S3))
               ELSE LET S3 == [S2 EXCEPT !.game_sessions[game_id] = s1]
                    IN Out(S3, broadcast_state(game_id, s1)
                                   \o broadcast_lobby_update(S3))
       ELSE Out(S1, broadcast_lobby_update(S1))

\* An exception other than ValueError leaves process_message and the
\* receive loop: handle_client runs the disconnect handling (lines 93-96).
Raise(S, client_id, msgs) ==
    LET d == handle_client_disconnect(S, client_id)
    IN Out(d.S, msgs \o d.msgs)

\* process_message, MSG_CREATE_GAME, with game_id the fresh id
on_create_game(S, client_id, game_id) ==
    LET s == add_player(NewSession(client_id), client_id).s
        S1 == [S EXCEPT !.lobby = create_game(@, game_id, client_id),
                        !.game_sessions = Put(@, game_id, s)]
    IN Out(S1, <<ReplyMsg("CREATE_GAME", client_id, game_id, "white")>>
                   \o broadcast_lobby_update(S1))

\* process_message, MSG_JOIN_GAME, from the point where lobby.join_game has
\* returned True (lines 127-160); S holds the lobby after join_game
on_join_game_joined(S, client_id, game_id, t) ==
    LET a == add_player(S.game_sessions[game_id], client_id)
        st == start_game(game_id, a.s, t)
        S1 == [S EXCEPT !.game_sessions[game_id] = st.s]
        m1 == <<ReplyMsg("JOIN_GAME", client_id, game_id, "black")>>
                  \o st.msgs
        white == PlayerOf(st.s, WHITE)
        to == Recipients(st.s)
    IN IF white = None \/ white \notin S.clients
       THEN Raise(S1, client_id, m1)
       ELSE Out(S1,
                m1 \o [i \in 1..Len(to) |->
                          GameStartedMsg(to[i], game_id, st.s,
                                         white, client_id)]
                   \o broadcast_state(game_id, st.s)
                   \o broadcast_lobby_update(S1))

\* process_message, MSG_JOIN_GAME at time t
on_join_game(S, client_id, game_id, t) ==
    IF game_id = None \/ game_id \notin DOMAIN S.game_sessions
    THEN Out(S, <<ErrorMsg(client_id, "Game not found")>>)
    ELSE LET r == join_game(S.lobby, game_id, client_id)
         IN IF ~r.ok THEN Out(S, <<ErrorMsg(client_id, "Cannot join game")>>)
            ELSE on_join_game_joined([S EXCEPT !.lobby = r.lobby],
                                     client_id, game_id, t)

\* process_message, MSG_SPECTATE
on_spectate(S, client_id, game_id) ==
    IF game_id \notin DOMAIN S.game_sessions
    THEN Out(S, <<ErrorMsg(client_id, "Game not found")>>)
    ELSE LET r == spectate_game(S.lobby, game_id, client_id)
         IN IF ~r.ok THEN Out(S, <<ErrorMsg(client_id, "Cannot spectate game")>>)
            ELSE LET a == add_spectator(game_id, S.game_sessions[game_id], client_id)
                     S1 == [S EXCEPT !.lobby = r.lobby,
                                     !.game_sessions[game_id] = a.s]
                 IN Out(S1, a.msgs
                            \o <<ReplyMsg("SPECTATE", client_id, game_id, "")>>
                            \o broadcast_state(game_id, a.s))

\* process_message, MSG_LEAVE
on_leave(S, client_id) ==
    LET game_id == get_game_id(S.lobby, client_id)
    IN IF game_id # None /\ game_id \in DOMAIN S.game_sessions
       THEN LET r == leave_game(S.lobby, client_id)
                s1 == remove_client(S.game_sessions[game_id], client_id)
                S1 == [S EXCEPT !.lobby = r.lobby]
            IN IF r.raised = "ValueError"
               THEN Out(S, <<ErrorMsg(client_id, "Invalid message format")>>)
               ELSE IF r.raised # "" THEN Raise(S, client_id, <<>>)
               ELSE IF DOMAIN s1.player_roles = {}
               THEN LET S2 == [S1 EXCEPT !.game_sessions = Del(@, game_id)]
                    IN Out(S2, broadcast_lobby_update(S2))
               ELSE LET S2 == [S1 EXCEPT !.game_sessions[game_id] = s1]
                    IN Out(S2, broadcast_state(game_id, s1)
                                   \o broadcast_lobby_update(S2))
       ELSE Out(S, <<>>)

\* process_message, MSG_MOVE at time t
on_move(S, client_id, tok, t) ==
    LET game_id == get_game_id(S.lobby, client_id)
    IN IF game_id # None /\ game_id \in DOMAIN S.game_sessions
       THEN LET r == process_move(game_id, S.game_sessions[game_id],
                                  client_id, tok, t)
                S1 == [S EXCEPT !.game_sessions[game_id] = r.s]
            IN IF ~r.ok
               THEN Out(S1, r.msgs \o <<ErrorMsg(client_id, "Invalid move")>>)
               ELSE IF ~is_game_over(r.s.history) THEN Out(S1, r.msgs)
               ELSE LET m1 == r.msgs \o broadcast_game_over(game_id, r.s)
                    IN IF game_id \notin DOMAIN S1.lobby.games
                       THEN Raise(S1, client_id, m1)
                       ELSE LET S2 == [S1 EXCEPT !.lobby.games[game_id].state =
                                                     "finished"]
                            IN Out(S2, m1 \o broadcast_lobby_update(S2))
       ELSE Out(S, <<>>)

\* self.clients[client_id]["username"]: SET_USERNAME is not modelled, so
\* the name is the None of handle_client, formatted into the display name
Username(S, client_id) == "None"

\* process_message, MSG_CHAT, with broken the sockets whose send fails
on_chat(S, client_id, text, broken) ==
    LET game_id == get_game_id(S.lobby, client_id)
    IN IF game_id = None
       THEN Out(S, <<ErrorMsg(client_id,
                               "You must be in a game to send chat messages")>>)
       ELSE IF game_id \notin DOMAIN S.game_sessions
       THEN Out(S, <<ErrorMsg(client_id, "Game not found")>>)
       ELSE LET s == S.game_sessions[game_id]
                username == Username(S, client_id)
                is_player == client_id \in DOMAIN s.player_roles
                player_role == IF is_player THEN s.player_roles[client_id] ELSE ""
                msgs == broadcast_chat(game_id, s, username, player_role, text)
                s1 == add_chat_message(s, DisplayName(username, player_role), text)
                success == SuccessCount(SendLoop(msgs, broken)) > 0
                S1 == [S EXCEPT !.game_sessions[game_id] = s1]
            IN IF success THEN Out(S1, msgs)
               ELSE Out(S1, msgs \o <<ErrorMsg(client_id,
                                                "Failed to send chat message")>>)

\* ------------------------------------------------------------- actions
\* One action per message type of process_message, one for a connection,
\* one for a disconnect, one for an iteration of a clock thread and one for
\* the passing of time.  obs says whether the step records the messages it
\* sends in sent: a specification that states nothing about messages runs
\* the same actions with obs = FALSE.
CurrentServer == Server(clients, lobby, game_sessions)

\* No thread is inside process_move or inside an iteration of the clock
\* loop.  deducted is the time taken off the two clocks so far, increments
\* not counted: it is not a field of the program but the quantity the
\* accounting is judged by.
IdleMover == [pc |-> "idle"]
IdleClock == [pc |-> "sleep"]
IdleJoiner == [pc |-> "idle"]
\* no connection under observation
NoWire == [pc |-> "off"]

NoThreads ==
    [clock |-> [g \in GameIds |-> IdleClock],
     mover |-> [c \in ClientIds |-> IdleMover],
     joiner |-> [c \in ClientIds |-> IdleJoiner],
     deducted |-> [g \in GameIds |-> 0]]

Emit(msgs, obs) == sent' = IF obs THEN msgs ELSE <<>>

Install(o, obs) ==
    /\ clients' = o.S.clients
    /\ lobby' = o.S.lobby
    /\ game_sessions' = o.S.game_sessions
    /\ Emit(o.msgs, obs)

Init ==
    /\ now = 0
    /\ clients = {}
    /\ nextClient = 0
    /\ lobby = NewLobby
    /\ nextGame = 0
    /\ game_sessions = EmptyMap
    /\ sent = <<>>
    /\ threads = NoThreads
    /\ wire = NoWire

\* ChessServer.start accepts a connection; handle_client registers it and
\* sends WELCOME
Connect(obs) ==
    /\ nextClient < MaxClients
    /\ nextClient' = nextClient + 1
    /\ clients' = clients \cup {nextClient + 1}
    /\ Emit(<<[type |-> "WELCOME", to |-> nextClient + 1]>>, obs)
    /\ UNCHANGED <<wire, now, lobby, nextGame, game_sessions, threads>>

Disconnect(c, obs) ==
    /\ c \in clients
    /\ Install(handle_client_disconnect(CurrentServer, c), obs)
    /\ UNCHANGED <<wire, now, nextClient, nextGame, threads>>

CreateGame(c, obs) ==
    /\ c \in clients
    /\ nextGame < MaxGames
    /\ nextGame' = nextGame + 1
    /\ Install(on_create_game(CurrentServer, c, nextGame + 1), obs)
    /\ UNCHANGED <<wire, now, nextClient, threads>>

JoinGame(c, g, obs) ==
    /\ c \in clients
    /\ Install(on_join_game(CurrentServer, c, g, now), obs)
    /\ UNCHANGED <<wire, now, nextClient, nextGame, threads>>

\* The chat log of every session stays within MaxChat entries
ChatBounded(S) ==
    \A g \in DOMAIN S.game_sessions :
        Len(S.game_sessions[g].chat_history) <= MaxChat

Spectate(c, g, obs) ==
    /\ c \in clients
    /\ LET o == on_spectate(CurrentServer, c, g)
       IN ChatBounded(o.S) /\ Install(o, obs)
    /\ UNCHANGED <<wire, now, nextClient, nextGame, threads>>

\* The sockets whose send fails: those of clients the server has closed,
\* and any others (the peer is gone and the server has not read EOF yet)
SocketFails(S) == {B \in SUBSET ClientIds : \A c \in ClientIds \ S.clients : c \in B}

ChatTexts == {"hi"}

Chat(c, text, obs) ==
    /\ c \in clients
    /\ \E broken \in SocketFails(CurrentServer) :
          LET o == on_chat(CurrentServer, c, text, broken)
          IN ChatBounded(o.S) /\ Install(o, obs)
    /\ UNCHANGED <<wire, now, nextClient, nextGame, threads>>

Leave(c, obs) ==
    /\ c \in clients
    /\ Install(on_leave(CurrentServer, c), obs)
    /\ UNCHANGED <<wire, now, nextClient, nextGame, threads>>

MoveTokens ==
    {"g1f3", "g8f6", "f3g1", "f6g8", "d8h4", "h7h8", "b2c3",
     "e7e8q", "e7e8k", "e2e9", "z9z9q", MissingMove}

MoveMsg(c, tok, obs) ==
    /\ c \in clients
    /\ LET o == on_move(CurrentServer, c, tok, now)
       IN /\ \A g \in DOMAIN o.S.game_sessions :
                 Len(o.S.game_sessions[g].history) <= MaxPly
          /\ Install(o, obs)
    /\ UNCHANGED <<wire, now, nextClient, nextGame, threads>>

\* One iteration of a session's clock thread
Tick(g, obs) ==
    /\ g \in DOMAIN game_sessions
    /\ ClockAlive(game_sessions[g])
    /\ LET r == time_control_tick(g, game_sessions[g], now)
       IN /\ game_sessions' = [game_sessions EXCEPT ![g] = r.s]
          /\ Emit(r.msgs, obs)
    /\ UNCHANGED <<wire, now, clients, nextClient, lobby, nextGame, threads>>

AdvanceTime ==
    /\ now < MaxTime
    /\ now' = now + 1
    /\ sent' = <<>>
    /\ UNCHANGED <<wire, clients, nextClient, lobby, nextGame, game_sessions, threads>>

\* The messages clients send and the connections they open and close
Messages(obs) ==
    \/ Connect(obs)
    \/ \E c \in ClientIds : Disconnect(c, obs)
    \/ \E c \in ClientIds : CreateGame(c, obs)
    \/ \E c \in ClientIds, g \in GameIds \cup {None} : JoinGame(c, g, obs)
    \/ \E c \in ClientIds, g \in GameIds : Spectate(c, g, obs)
    \/ \E c \in ClientIds : Leave(c, obs)
    \/ \E c \in ClientIds, tok \in MoveTokens : MoveMsg(c, tok, obs)
    \/ \E c \in ClientIds, text \in ChatTexts : Chat(c, text, obs)

\* The clock threads
Clock(obs) == \E g \in GameIds : Tick(g, obs)

Next == Messages(TRUE) \/ Clock(TRUE) \/ AdvanceTime

Spec == Init /\ [][Next]_vars

\* ------------------------------------------- the lobby driven directly
\* Every GameLobby operation called with arbitrary arguments, as a caller
\* of the lobby component may.
LobbyInit == Init

LobbyFrame == UNCHANGED <<wire, now, clients, nextClient, game_sessions, sent, threads>>

LCreateGame(p) ==
    /\ nextGame < MaxGames
    /\ nextGame' = nextGame + 1
    /\ lobby' = create_game(lobby, nextGame + 1, p)
    /\ LobbyFrame

LJoinGame(g, p) ==
    LET r == join_game(lobby, g, p)
    IN /\ lobby' = r.lobby
       /\ UNCHANGED nextGame
       /\ LobbyFrame

LJoinRandomGame(p) ==
    LET r == join_random_game(lobby, nextGame + 1, p)
    IN /\ r.created => nextGame < MaxGames
       /\ lobby' = r.lobby
       /\ nextGame' = IF r.created THEN nextGame + 1 ELSE nextGame
       /\ LobbyFrame

LLeaveGame(c) ==
    LET r == leave_game(lobby, c)
    IN /\ lobby' = r.lobby
       /\ UNCHANGED nextGame
       /\ LobbyFrame

LSpectateGame(g, c) ==
    LET r == spectate_game(lobby, g, c)
    IN /\ lobby' = r.lobby
       /\ UNCHANGED nextGame
       /\ LobbyFrame

LobbyNext ==
    \/ \E p \in ClientIds : LCreateGame(p)
    \/ \E g \in GameIds, p \in ClientIds : LJoinGame(g, p)
    \/ \E p \in ClientIds : LJoinRandomGame(p)
    \/ \E c \in ClientIds : LLeaveGame(c)
    \/ \E g \in GameIds, c \in ClientIds : LSpectateGame(g, c)

LobbySpec == LobbyInit /\ [][LobbyNext]_vars


\* ------------------------------------------- the threads, step by step
\* GameSession holds no lock: a connection thread inside process_move and
\* the session's clock thread run statement by statement against the same
\* fields.  The steps below are the statements that read or write
\* time_remaining, last_move_time, the board and end_time; a thread's
\* locals live in threads between its steps.  The fields prev_* of a
\* mover record what the session held when the call began.

\* process_move, lines 141-195: the validation passes, current_time and
\* time_spent are read
MoveBegin(c, tok) ==
    LET g == get_game_id(lobby, c)
    IN /\ c \in clients
       /\ threads.mover[c].pc = "idle"
       /\ g # None /\ g \in DOMAIN game_sessions
       /\ LET s == game_sessions[g]
          IN /\ process_move(g, s, c, tok, now).ok
             /\ Len(s.history) < MaxPly
             /\ threads' = [threads EXCEPT !.mover[c] =
                               [pc |-> "charge", game |-> g,
                                player_role |-> s.player_roles[c],
                                move |-> parse_move(tok).move,
                                tok |-> tok,
                                current_time |-> now,
                                time_spent |-> TimeSpent(s, now),
                                prev_history |-> s.history,
                                prev_time |-> s.time_remaining,
                                prev_stamp |-> s.last_move_time]]
       /\ sent' = <<>>
       /\ UNCHANGED <<wire, now, clients, nextClient, lobby, nextGame, game_sessions>>

\* process_move, lines 198-201
MoveCharge(c) ==
    LET m == threads.mover[c]
    IN /\ m.pc = "charge"
       /\ m.game \in DOMAIN game_sessions
       /\ LET s == game_sessions[m.game]
              left == Max(0, s.time_remaining[m.player_role] - m.time_spent)
          IN /\ game_sessions' =
                    [game_sessions EXCEPT ![m.game].time_remaining[m.player_role] =
                                              left + TIME_INCREMENT]
             /\ threads' = [threads EXCEPT
                               !.mover[c].pc = "stamp",
                               !.deducted[m.game] =
                                   @ + (s.time_remaining[m.player_role] - left)]
       /\ sent' = <<>>
       /\ UNCHANGED <<wire, now, clients, nextClient, lobby, nextGame>>

\* process_move, line 204
MoveStamp(c) ==
    LET m == threads.mover[c]
    IN /\ m.pc = "stamp"
       /\ m.game \in DOMAIN game_sessions
       /\ game_sessions' =
              [game_sessions EXCEPT ![m.game].last_move_time = m.current_time]
       /\ threads' = [threads EXCEPT !.mover[c].pc = "push"]
       /\ sent' = <<>>
       /\ UNCHANGED <<wire, now, clients, nextClient, lobby, nextGame>>

\* process_move, line 207
MovePush(c) ==
    LET m == threads.mover[c]
    IN /\ m.pc = "push"
       /\ m.game \in DOMAIN game_sessions
       /\ game_sessions' =
              [game_sessions EXCEPT ![m.game].history = Append(@, Uci(m.move))]
       /\ threads' = [threads EXCEPT !.mover[c].pc = "finish"]
       /\ sent' = <<>>
       /\ UNCHANGED <<wire, now, clients, nextClient, lobby, nextGame>>

\* The messages lines 212-218 send from the session as it is now
FinishMsgs(g, s, current_time) ==
    IF is_game_over(s.history)
    THEN LET s2 == [s EXCEPT !.end_time = current_time]
         IN broadcast_game_over(g, s2) \o broadcast_state(g, s2)
    ELSE broadcast_state(g, s)

\* process_move, lines 212-219, and the rest of the MSG_MOVE handler
\* (server.py lines 211-218)
MoveFinish(c) ==
    LET m == threads.mover[c]
    IN /\ m.pc = "finish"
       /\ m.game \in DOMAIN game_sessions
       /\ LET s == game_sessions[m.game]
              over == is_game_over(s.history)
          IN /\ game_sessions' =
                    IF over
                    THEN [game_sessions EXCEPT ![m.game].end_time = m.current_time]
                    ELSE game_sessions
             /\ lobby' =
                    IF over /\ m.game \in DOMAIN lobby.games
                    THEN [lobby EXCEPT !.games[m.game].state = "finished"]
                    ELSE lobby
       /\ threads' = [threads EXCEPT !.mover[c] = IdleMover]
       /\ sent' = <<>>
       /\ UNCHANGED <<wire, now, clients, nextClient, nextGame>>

\* time_control_loop, lines 51-62: the loop condition holds, current_time,
\* the color to move and time_since_last_update are read
ClockRead(g) ==
    /\ g \in DOMAIN game_sessions
    /\ threads.clock[g].pc = "sleep"
    /\ ClockAlive(game_sessions[g])
    /\ LET s == game_sessions[g]
       IN threads' = [threads EXCEPT !.clock[g] =
                         [pc |-> "charge",
                          current_time |-> now,
                          color |-> IF Turn(s.history) = "white" THEN WHITE ELSE BLACK,
                          time_since_last_update |-> now - s.last_move_time]]
    /\ sent' = <<>>
    /\ UNCHANGED <<wire, now, clients, nextClient, lobby, nextGame, game_sessions>>

\* time_control_loop, line 63
ClockCharge(g) ==
    LET k == threads.clock[g]
    IN /\ g \in DOMAIN game_sessions
       /\ k.pc = "charge"
       /\ LET s == game_sessions[g]
              left == Max(0, s.time_remaining[k.color] - k.time_since_last_update)
          IN /\ game_sessions' =
                    [game_sessions EXCEPT ![g].time_remaining[k.color] = left]
             /\ threads' = [threads EXCEPT
                               !.clock[g].pc = "stamp",
                               !.deducted[g] = @ + (s.time_remaining[k.color] - left)]
       /\ sent' = <<>>
       /\ UNCHANGED <<wire, now, clients, nextClient, lobby, nextGame>>

\* time_control_loop, line 64
ClockStamp(g) ==
    LET k == threads.clock[g]
    IN /\ g \in DOMAIN game_sessions
       /\ k.pc = "stamp"
       /\ game_sessions' =
              [game_sessions EXCEPT ![g].last_move_time = k.current_time]
       /\ threads' = [threads EXCEPT !.clock[g].pc = "check"]
       /\ sent' = <<>>
       /\ UNCHANGED <<wire, now, clients, nextClient, lobby, nextGame>>

\* time_control_loop, lines 67-82: the timeout check, the periodic
\* broadcast, the sleep
ClockCheck(g) ==
    LET k == threads.clock[g]
    IN /\ g \in DOMAIN game_sessions
       /\ k.pc = "check"
       /\ LET s == game_sessions[g]
          IN IF s.time_remaining[k.color] <= 0
             THEN /\ game_sessions' =
                         [game_sessions EXCEPT ![g].time_remaining[k.color] = 0,
                                               ![g].end_time = k.current_time]
                  /\ threads' = [threads EXCEPT !.clock[g] = [pc |-> "done"]]
             ELSE /\ game_sessions' =
                         IF k.current_time - s.last_broadcast_time >= 1
                         THEN [game_sessions EXCEPT
                                  ![g].last_broadcast_time = k.current_time]
                         ELSE game_sessions
                  /\ threads' = [threads EXCEPT !.clock[g] = IdleClock]
       /\ sent' = <<>>
       /\ UNCHANGED <<wire, now, clients, nextClient, lobby, nextGame>>

MoverSteps ==
    \/ \E c \in ClientIds, tok \in MoveTokens : MoveBegin(c, tok)
    \/ \E c \in ClientIds : MoveCharge(c)
    \/ \E c \in ClientIds : MoveStamp(c)
    \/ \E c \in ClientIds : MovePush(c)
    \/ \E c \in ClientIds : MoveFinish(c)

ClockSteps ==
    \/ \E g \in GameIds : ClockRead(g)
    \/ \E g \in GameIds : ClockCharge(g)
    \/ \E g \in GameIds : ClockStamp(g)
    \/ \E g \in GameIds : ClockCheck(g)

\* ------------------------------------------------- the specifications
\* Each specification below runs a part of the program within bounds of
\* its own.
PlayGames == 1
ClockClients == 2
ClockGames == 1
RaceClients == 2
RaceGames == 1
RaceTime == 2
RacePly == 2

\* The message handlers with a single game: players, a spectator, moves.
PlayNext == Messages(FALSE) /\ nextGame' <= PlayGames

PlaySpec == Init /\ [][PlayNext]_vars

\* Two clients, one game, the clock thread and the passing of time; every
\* handler and every clock iteration runs to its end before the next.
ClockNext ==
    /\ Messages(FALSE) \/ Clock(FALSE) \/ AdvanceTime
    /\ nextGame' <= ClockGames
    /\ nextClient' <= ClockClients

ClockSpec == Init /\ [][ClockNext]_vars

\* Two clients set a game up; their moves and the clock thread then run
\* statement by statement.  A connection thread handles one message at a
\* time: a client inside process_move sends nothing else.
RaceNext ==
    /\ \/ Connect(FALSE)
       \/ \E c \in ClientIds :
             threads.mover[c].pc = "idle" /\ CreateGame(c, FALSE)
       \/ \E c \in ClientIds, g \in GameIds :
             threads.mover[c].pc = "idle" /\ JoinGame(c, g, FALSE)
       \/ AdvanceTime
       \/ MoverSteps
       \/ ClockSteps
    /\ nextGame' <= RaceGames
    /\ nextClient' <= RaceClients
    /\ now' <= RaceTime
    /\ \A c \in ClientIds :
          threads'.mover[c].pc # "idle"
              => Len(threads'.mover[c].prev_history) < RacePly

RaceSpec == Init /\ [][RaceNext]_vars

\* A session in play: started, not ended, its players not all gone
Active(g) ==
    /\ g \in DOMAIN game_sessions
    /\ game_sessions[g].start_time # None
    /\ game_sessions[g].end_time = None
    /\ game_sessions[g].running

\* The side to move of every session in play can run out of time before
\* the model's time ends.
WithinHorizon ==
    \A g \in DOMAIN game_sessions :
        Active(g) =>
            game_sessions[g].last_move_time
                + game_sessions[g].time_remaining[Turn(game_sessions[g].history)]
            <= MaxTime

\* ClockSpec within the horizon, with time that passes and clock threads
\* that keep iterating (the loop of time_control_loop sleeps 0.1 s and runs
\* again while the session runs and has no end_time).
LiveNext == ClockNext /\ WithinHorizon'

LiveSpec ==
    /\ Init
    /\ [][LiveNext]_vars
    /\ WF_vars(AdvanceTime)
    /\ \A g \in GameIds : WF_vars(Tick(g, FALSE))

\* ============================================================= claims
\* A participant's view of a session
Participants(s) == DOMAIN s.player_roles \cup s.spectators

HasRole(s, c) == c \in DOMAIN s.player_roles

\* C1: a move is applied to the board only when the caller's color is the
\* side to move; process_move by a player of the other color fails as
\* WrongTurn and applies no move.  The last conjunct is the same at the
\* statement that pushes the move, whatever ran since the validation.
C1_OnlySideToMoveMoves ==
    \A g \in DOMAIN game_sessions, c \in ClientIds, tok \in MoveTokens :
        LET s == game_sessions[g]
            r == process_move(g, s, c, tok, now)
            mine == HasRole(s, c) /\ s.player_roles[c] = Turn(s.history)
        IN /\ (HasRole(s, c) /\ ~mine)
                => (~r.ok /\ r.why = "WrongTurn" /\ r.s.history = s.history)
           /\ (r.s.history # s.history) => mine
           /\ threads.mover[c].pc = "push"
                => threads.mover[c].player_role
                       = Turn(game_sessions[threads.mover[c].game].history)

\* A move has been played and the player who played it calls again
C1_Witness ==
    \E g \in DOMAIN game_sessions, c \in ClientIds :
        LET s == game_sessions[g]
        IN /\ Len(s.history) >= 1
           /\ HasRole(s, c) /\ s.player_roles[c] # Turn(s.history)
           /\ process_move(g, s, c, Uci(QuietMove(s.history)), now).why = "WrongTurn"

\* A session has ended: a terminal position or a timeout recorded end_time,
\* or a player forfeited and the lobby marked the game finished.
Ended(g) ==
    \/ game_sessions[g].end_time # None
    \/ g \in DOMAIN lobby.games /\ lobby.games[g].state = FINISHED

\* C2: once a session has ended, every process_move is rejected and leaves
\* the board, the move history and both remaining times unchanged.
C2_EndedRejectsMoves ==
    \A g \in DOMAIN game_sessions, c \in ClientIds, tok \in MoveTokens :
        LET s == game_sessions[g]
            r == process_move(g, s, c, tok, now)
        IN Ended(g) => /\ ~r.ok
                       /\ r.s.history = s.history
                       /\ r.s.time_remaining = s.time_remaining

\* C3: a successful process_move leaves the mover with
\* max(0, previous - elapsed) + increment, elapsed being the time of the call
\* less the last_move_time of the call's start (nothing where there is none
\* yet), and leaves the opponent's time as it was.
C3_MoverCharged ==
    [][\A c \in ClientIds :
          (threads.mover[c].pc = "charge" /\ threads'.mover[c].pc = "stamp")
          => LET m == threads.mover[c]
                 elapsed == IF m.prev_stamp # None
                            THEN m.current_time - m.prev_stamp ELSE 0
                 after == game_sessions'[m.game].time_remaining
             IN /\ after[m.player_role] =
                       Max(0, m.prev_time[m.player_role] - elapsed) + TIME_INCREMENT
                /\ after[Other(m.player_role)] = m.prev_time[Other(m.player_role)]]_vars

\* Every process_move in progress began after its game had started
StartedCalls ==
    \A c \in ClientIds :
        threads.mover[c].pc # "idle" => threads.mover[c].prev_stamp # None

\* C4: under the interleavings of the clock thread's iteration and
\* process_move, no interval of wall-clock time is charged twice (the time
\* taken off the two clocks never exceeds the time since the game started)
\* and last_move_time never moves backwards.
C4_NoDoubleCharge ==
    /\ [](\A g \in DOMAIN game_sessions :
            game_sessions[g].start_time # None
                => threads.deducted[g] <= now - game_sessions[g].start_time)
    /\ [][\A g \in (DOMAIN game_sessions) \cap (DOMAIN game_sessions') :
            (game_sessions[g].last_move_time # None /\ StartedCalls)
                => game_sessions'[g].last_move_time
                       >= game_sessions[g].last_move_time]_vars

\* The session of game g has k moves on the board and is in play
WaitingAt(g, k) == Active(g) /\ Len(game_sessions[g].history) = k

\* The clock thread ended game g on time with k moves on the board, or
\* the wait was cut short: a move was played or the session's players are
\* all gone
TimedOutAt(g, k) ==
    \/ g \notin DOMAIN game_sessions
    \/ ~game_sessions[g].running
    \/ Len(game_sessions[g].history) # k
    \/ /\ game_sessions[g].end_time # None
       /\ game_sessions[g].time_remaining[Turn(game_sessions[g].history)] = 0

\* What an iteration of the clock thread that finds the side to move out
\* of time does: end_time recorded, GAME_OVER to every socket of the
\* session with the result in favor of the other color
TimeoutAnnounced(g) ==
    LET s == game_sessions[g]
        color == Turn(s.history)
        r == time_control_tick(g, s, now)
    IN (ClockAlive(s) /\ Max(0, s.time_remaining[color] - (now - s.last_move_time)) = 0)
       => /\ r.s.time_remaining[color] = 0
          /\ r.s.end_time = now
          /\ \A p \in s.client_sockets :
                \E i \in 1..Len(r.msgs) :
                    /\ r.msgs[i].type = "GAME_OVER"
                    /\ r.msgs[i].to = p
                    /\ r.msgs[i].result = IF color = WHITE THEN "0-1" ELSE "1-0"

\* C5: in a session in play whose side to move makes no move, the clock
\* thread eventually brings that color's time to 0, records end_time and
\* broadcasts GAME_OVER with the result in favor of the other color, with no
\* client message needed.
C5_TimeoutEndsGame ==
    /\ \A g \in GameIds, k \in 0..MaxPly : WaitingAt(g, k) ~> TimedOutAt(g, k)
    /\ [](\A g \in DOMAIN game_sessions : TimeoutAnnounced(g))

\* Black, to move after White's move, has run out of time
C5_Witness ==
    \E g \in DOMAIN game_sessions :
        LET s == game_sessions[g]
        IN /\ s.end_time # None
           /\ Len(s.history) = 1
           /\ s.time_remaining[BLACK] = 0
           /\ get_result(s) = "1-0"

\* The session a MSG_MOVE of client c is routed to, if any
Routed(c) ==
    /\ get_game_id(lobby, c) # None
    /\ get_game_id(lobby, c) \in DOMAIN game_sessions

\* C6: a process_move that fails validation leaves the board, the history,
\* the remaining times and last_move_time unchanged, and nothing but ERROR
\* messages to the caller is sent.
C6_FailedMoveChangesNothing ==
    \A c \in clients, tok \in MoveTokens :
        Routed(c) =>
            LET g == get_game_id(lobby, c)
                s == game_sessions[g]
                r == process_move(g, s, c, tok, now)
                o == on_move(CurrentServer, c, tok, now)
            IN ~r.ok =>
                /\ r.s.history = s.history
                /\ r.s.time_remaining = s.time_remaining
                /\ r.s.last_move_time = s.last_move_time
                /\ o.S.game_sessions[g] = s
                /\ \A i \in 1..Len(o.msgs) :
                      o.msgs[i].type = "ERROR" /\ o.msgs[i].to = c

\* A game with a move played, both players and a spectator, in which a call
\* of each failure class is refused
C6_Witness ==
    \E g \in DOMAIN game_sessions, a, b, w \in clients :
        LET s == game_sessions[g]
        IN /\ Len(s.history) >= 1
           /\ Routed(a) /\ Routed(b) /\ Routed(w)
           /\ {a, b, w} \subseteq s.client_sockets
           /\ process_move(g, s, w, Uci(QuietMove(s.history)), now).why = "NotAPlayer"
           /\ process_move(g, s, a, Uci(QuietMove(s.history)), now).why = "WrongTurn"
           /\ process_move(g, s, b, "e2e9", now).why = "MalformedMove"
           /\ process_move(g, s, b, "e7e8q", now).why = "IllegalMove"
           /\ Len(on_move(CurrentServer, b, "e7e8q", now).msgs) = 2

\* C7: the UPDATE that a successful process_move broadcasts goes to every
\* participant of the session, names the color opposite to the mover's as
\* the side to move and carries the history of the call's start with the
\* accepted move appended.
C7_UpdateAfterMove ==
    \A c \in ClientIds :
        threads.mover[c].pc = "finish" =>
            LET m == threads.mover[c]
                s == game_sessions[m.game]
                msgs == FinishMsgs(m.game, s, m.current_time)
            IN \A p \in Participants(s) :
                  \E i \in 1..Len(msgs) :
                      /\ msgs[i].type = "UPDATE"
                      /\ msgs[i].to = p
                      /\ msgs[i].turn = Other(m.player_role)
                      /\ msgs[i].move_history = Append(m.prev_history, m.tok)

\* C8: a lobby game becomes playing exactly in the step that takes its
\* player list from one entry to two, a new game starts waiting, and a game
\* that has left waiting never returns to it.
C8_StatusOneWay ==
    [][\A g \in GameIds :
          /\ (g \notin DOMAIN lobby.games /\ g \in DOMAIN lobby'.games)
                => /\ lobby'.games[g].state = WAITING
                   /\ g = nextGame + 1
          /\ (g \in DOMAIN lobby.games /\ g \in DOMAIN lobby'.games)
                => LET a == lobby.games[g]
                       b == lobby'.games[g]
                   IN /\ (a.state # PLAYING /\ b.state = PLAYING)
                            <=> (Len(a.players) = 1 /\ Len(b.players) = 2)
                      /\ (Len(a.players) = 1 /\ Len(b.players) = 2)
                            => b.players = Append(a.players, b.players[2])
                      /\ a.state # WAITING => b.state # WAITING]_vars

\* One game is playing with two players, another has been finished by a
\* forfeit
C8_Witness ==
    \E g, h \in DOMAIN lobby.games :
        /\ lobby.games[g].state = PLAYING /\ Len(lobby.games[g].players) = 2
        /\ lobby.games[h].state = FINISHED

\* The conditions under which joinGame(g, p) is to fail
JoinRefused(L, g) ==
    \/ g \notin DOMAIN L.games
    \/ L.games[g].state # WAITING
    \/ Len(L.games[g].players) >= 2

\* C9: join_game returns false and leaves the lobby unchanged when the game
\* is unknown, not waiting or has two players; otherwise it returns true,
\* appends the player and sets the game playing iff it now has two players.
C9_JoinGame ==
    \A g \in GameIds, p \in ClientIds :
        LET r == join_game(lobby, g, p)
        IN IF JoinRefused(lobby, g)
           THEN ~r.ok /\ r.lobby = lobby
           ELSE /\ r.ok
                /\ g \in DOMAIN r.lobby.games
                /\ r.lobby.games[g].players = Append(lobby.games[g].players, p)
                /\ r.lobby.games[g].state = PLAYING
                      <=> Len(r.lobby.games[g].players) = 2
                /\ r.lobby.games[g].state \in {WAITING, PLAYING}

\* A finished game with one player, which refuses a join for its status
\* alone, next to a game that has taken its second player
C9_Witness ==
    \E g, h \in DOMAIN lobby.games :
        /\ lobby.games[g].state = FINISHED /\ Len(lobby.games[g].players) = 1
        /\ \A p \in ClientIds : ~join_game(lobby, g, p).ok
        /\ lobby.games[h].state = PLAYING /\ Len(lobby.games[h].players) = 2
        /\ \A p \in ClientIds : ~join_game(lobby, h, p).ok

\* C10: leave_game by the only remaining player of a game deletes the game;
\* leave_game by one of the two players of a playing game sets it finished
\* and keeps it with the other player as its only player.
C10_LeaveGame ==
    \A g \in DOMAIN lobby.games, c \in ClientIds :
        LET G == lobby.games[g]
            r == leave_game(lobby, c)
        IN /\ G.players = <<c>> => g \notin DOMAIN r.lobby.games
           /\ (G.state = PLAYING /\ Len(G.players) = 2 /\ InSeq(c, G.players))
                => /\ g \in DOMAIN r.lobby.games
                   /\ r.lobby.games[g].state = FINISHED
                   /\ Len(r.lobby.games[g].players) = 1
                   /\ r.lobby.games[g].players[1] # c
                   /\ InSeq(r.lobby.games[g].players[1], G.players)

\* The games of the table that list a client as a player, and those whose
\* spectator set (the per-game sets of spectate_game, or the set kept in
\* the game's tuple) holds it
PlayerGames(L, c) == {g \in DOMAIN L.games : InSeq(c, L.games[g].players)}

SpectatorGames(L, c) ==
    {g \in DOMAIN L.games :
        \/ c \in L.games[g].spectators
        \/ g \in DOMAIN L.spectators /\ c \in L.spectators[g]}

\* C11: in every reachable lobby state each client id is in the player
\* list of at most one game and in the spectator set of at most one game,
\* whatever sequence of create_game, join_game, join_random_game,
\* spectate_game and leave_game calls led there.
C11_OneGamePerClient ==
    \A c \in ClientIds :
        /\ Cardinality(PlayerGames(lobby, c)) <= 1
        /\ Cardinality(SpectatorGames(lobby, c)) <= 1

\* GameLobby.get_spectators: the set kept in the game's tuple (None for an
\* unknown game)
get_spectators(L, game_id) ==
    IF game_id \notin DOMAIN L.games THEN None ELSE L.games[game_id].spectators

\* C12: spectate_game(g, c) returns False and changes nothing when g is
\* unknown; otherwise it returns True, c is in the set get_spectators(g)
\* reports, and a second spectate_game(g, c) leaves the lobby as the first
\* left it.
C12_SpectateGame ==
    \A g \in GameIds, c \in ClientIds :
        LET r == spectate_game(lobby, g, c)
            again == spectate_game(r.lobby, g, c)
        IN IF g \notin DOMAIN lobby.games
           THEN ~r.ok /\ r.lobby = lobby
           ELSE /\ r.ok
                /\ c \in get_spectators(r.lobby, g)
                /\ again.ok /\ again.lobby = r.lobby

\* The spectators of a game as the lobby and the session hold them: the
\* per-game set of spectate_game, the set in the game's tuple, and the
\* session's set
LobbySpectators(L, g) == IF g \in DOMAIN L.spectators THEN L.spectators[g] ELSE {}

SpectatorsOf(S, g) ==
    [lobby |-> LobbySpectators(S.lobby, g),
     tuple |-> S.lobby.games[g].spectators,
     session |-> S.game_sessions[g].spectators]

Live(S, g) == g \in DOMAIN S.lobby.games /\ g \in DOMAIN S.game_sessions

\* C13: a player's move, and a player's leave that does not delete the
\* game, leave the game's spectator set as it was; a spectator's leave
\* removes that spectator and nothing else, and leaves the game's status
\* and player list as they were.
C13_SpectatorsFrame ==
    \A c \in clients, g \in GameIds :
        Live(CurrentServer, g) =>
            LET S == CurrentServer
                s == game_sessions[g]
                lv == on_leave(S, c).S
            IN /\ \A tok \in MoveTokens :
                      LET mv == on_move(S, c, tok, now).S
                      IN (HasRole(s, c) /\ Live(mv, g))
                            => SpectatorsOf(mv, g) = SpectatorsOf(S, g)
               /\ (HasRole(s, c) /\ Live(lv, g))
                     => SpectatorsOf(lv, g) = SpectatorsOf(S, g)
               /\ (c \in s.spectators /\ c \in LobbySpectators(lobby, g))
                     => /\ Live(lv, g)
                        /\ lv.game_sessions[g].spectators = s.spectators \ {c}
                        /\ LobbySpectators(lv.lobby, g)
                               = LobbySpectators(lobby, g) \ {c}
                        /\ lv.lobby.games[g].state = lobby.games[g].state
                        /\ lv.lobby.games[g].players = lobby.games[g].players

\* C14: between handlers, every game id of the lobby's game table has a
\* GameSession in the dispatcher's session table.
C14_EveryGameHasSession ==
    \A g \in DOMAIN lobby.games : g \in DOMAIN game_sessions

\* A client id is held somewhere in the server's state
Known(S, c) ==
    \/ c \in S.clients
    \/ \E g \in DOMAIN S.lobby.games :
          InSeq(c, S.lobby.games[g].players) \/ c \in S.lobby.games[g].spectators
    \/ \E g \in DOMAIN S.lobby.spectators : c \in S.lobby.spectators[g]
    \/ \E g \in DOMAIN S.game_sessions :
          \/ c \in DOMAIN S.game_sessions[g].player_roles
          \/ c \in S.game_sessions[g].spectators
          \/ c \in S.game_sessions[g].client_sockets

\* C15: after handle_client_disconnect for a client, its id is in no
\* lobby game's player list or spectator set, in no session's players,
\* spectators or sockets, and not in the client table.
C15_DisconnectRemovesClient ==
    \A c \in clients :
        ~Known(handle_client_disconnect(CurrentServer, c).S, c)

\* The client is the only player left in the session
LastPlayer(s, c) == DOMAIN s.player_roles = {c}

\* C16: when remove_client removes the last player of a session, the
\* session is marked non-running and the LEAVE handler and the disconnect
\* handling delete it from game_sessions, spectators or not; removing a
\* spectator, or a player while another player remains, leaves the running
\* flag as it was.
C16_LastPlayerEndsSession ==
    \A g \in DOMAIN game_sessions, c \in ClientIds :
        LET s == game_sessions[g]
            r == remove_client(s, c)
            routed == c \in clients /\ get_game_id(lobby, c) = g
        IN /\ s.running
           /\ LastPlayer(s, c)
                => /\ ~r.running
                   /\ routed => g \notin DOMAIN on_leave(CurrentServer, c).S.game_sessions
                   /\ routed => g \notin DOMAIN
                                   handle_client_disconnect(CurrentServer, c).S.game_sessions
           /\ ~LastPlayer(s, c)
                => /\ r.running
                   /\ routed => g \in DOMAIN on_leave(CurrentServer, c).S.game_sessions
                   /\ routed => g \in DOMAIN
                                   handle_client_disconnect(CurrentServer, c).S.game_sessions

\* The only player of a session that has a spectator leaves
C16_Witness ==
    \E g \in DOMAIN game_sessions, c \in clients :
        LET s == game_sessions[g]
        IN /\ LastPlayer(s, c)
           /\ s.spectators \ {c} # {}
           /\ get_game_id(lobby, c) = g
           /\ g \notin DOMAIN on_leave(CurrentServer, c).S.game_sessions

\* C17: when one of the two players of a session in play leaves or
\* disconnects, the session has ended when the handler returns: end_time is
\* recorded and the clock thread's loop condition is false, so no further
\* time is deducted.
C17_ForfeitEndsSession ==
    \A g \in DOMAIN game_sessions, c \in clients :
        (/\ Active(g)
         /\ Cardinality(DOMAIN game_sessions[g].player_roles) = 2
         /\ HasRole(game_sessions[g], c)
         /\ get_game_id(lobby, c) = g)
            => \A S \in {on_leave(CurrentServer, c).S,
                         handle_client_disconnect(CurrentServer, c).S} :
                   /\ g \in DOMAIN S.game_sessions
                   /\ S.game_sessions[g].end_time # None
                   /\ ~ClockAlive(S.game_sessions[g])

\* C18: whenever the JOIN_GAME handler sends GAME_STARTED for a session,
\* the session's board is the initial position with no move played and
\* White to move, and both clocks hold the starting time control, as the
\* message says.
C18_GameStartedInitial ==
    \A c \in clients, g \in GameIds :
        LET o == on_join_game(CurrentServer, c, g, now)
        IN \A i \in 1..Len(o.msgs) :
               o.msgs[i].type = "GAME_STARTED"
                   => LET s == o.S.game_sessions[g]
                      IN /\ s.history = <<>>
                         /\ Turn(s.history) = o.msgs[i].turn
                         /\ s.history = o.msgs[i].move_history
                         /\ s.time_remaining[WHITE] = DEFAULT_TIME_CONTROL
                         /\ s.time_remaining[BLACK] = DEFAULT_TIME_CONTROL

\* The display name ends with the tag
HasTag(name, tag) ==
    /\ Len(name) >= Len(tag)
    /\ SubSeq(name, Len(name) - Len(tag) + 1, Len(name)) = tag

\* The CHAT messages among the messages a handler sent
ChatsOf(msgs) == {i \in 1..Len(msgs) : msgs[i].type = "CHAT"}

\* C19: a chat sent by a client goes to every socket of its session with
\* the sender tagged [White] or [Black], the color the session has assigned
\* to the client, when the client is a player of the game, and tagged
\* [Spectator] when it is a spectator (and holds no color).
C19_ChatTag ==
    \A c \in clients, text \in ChatTexts, broken \in SocketFails(CurrentServer) :
        LET g == get_game_id(lobby, c)
            o == on_chat(CurrentServer, c, text, broken)
        IN (g # None /\ g \in DOMAIN game_sessions) =>
              LET s == game_sessions[g]
              IN /\ {o.msgs[i].to : i \in ChatsOf(o.msgs)} = s.client_sockets
                 /\ \A i \in ChatsOf(o.msgs) :
                       /\ o.msgs[i].message = text
                       /\ (HasRole(s, c) /\ s.player_roles[c] = WHITE)
                             => HasTag(o.msgs[i].sender, "[White]")
                       /\ (HasRole(s, c) /\ s.player_roles[c] = BLACK)
                             => HasTag(o.msgs[i].sender, "[Black]")
                       /\ (~HasRole(s, c) /\ c \in s.spectators)
                             => HasTag(o.msgs[i].sender, "[Spectator]")

\* A game with both players and a spectator: each of the three chats and is
\* tagged by its role
C19_Witness ==
    \E g \in DOMAIN game_sessions, w, b, sp \in clients :
        LET s == game_sessions[g]
            Tagged(c, tag) ==
                /\ get_game_id(lobby, c) = g
                /\ \E i \in ChatsOf(on_chat(CurrentServer, c, "hi", {}).msgs) :
                      HasTag(on_chat(CurrentServer, c, "hi", {}).msgs[i].sender, tag)
        IN /\ HasRole(s, w) /\ s.player_roles[w] = WHITE
           /\ HasRole(s, b) /\ s.player_roles[b] = BLACK
           /\ ~HasRole(s, sp) /\ sp \in s.spectators
           /\ Tagged(w, "[White]") /\ Tagged(b, "[Black]") /\ Tagged(sp, "[Spectator]")

\* The attempts of a send loop reach every socket of the session once, each
\* with the outcome its socket gives
Covers(attempts, s, broken) ==
    /\ Len(attempts) = Cardinality(s.client_sockets)
    /\ {attempts[i].msg.to : i \in 1..Len(attempts)} = s.client_sockets
    /\ \A i \in 1..Len(attempts) :
          attempts[i].ok = (attempts[i].msg.to \notin broken)

\* C20: in broadcast_state, broadcast_chat and broadcast_game_over a send
\* is attempted to every socket registered in the session, whichever sends
\* fail, and a failed send leaves the change that triggered the broadcast
\* in place: the chat line stays in the chat log, the move stays on the
\* board and the clocks keep the values the move gave them.
C20_BroadcastSurvivesFailures ==
    \A g \in DOMAIN game_sessions, broken \in SUBSET ClientIds :
        LET s == game_sessions[g]
        IN /\ Covers(SendLoop(broadcast_state(g, s), broken), s, broken)
           /\ Covers(SendLoop(broadcast_game_over(g, s), broken), s, broken)
           /\ Covers(SendLoop(broadcast_chat(g, s, "None", "", "hi"), broken),
                     s, broken)
           /\ \A c \in clients :
                 get_game_id(lobby, c) = g =>
                    LET o == on_chat(CurrentServer, c, "hi", broken)
                        role == IF HasRole(s, c) THEN s.player_roles[c] ELSE ""
                    IN /\ o.S.game_sessions[g] =
                             [s EXCEPT !.chat_history =
                                  Append(@, <<DisplayName("None", role), "hi">>)]
                       /\ SuccessCount(SendLoop(broadcast_chat(g, s, "None", role, "hi"),
                                                broken)) = 0
                             <=> \E i \in 1..Len(o.msgs) : o.msgs[i].type = "ERROR"
           /\ \A c \in clients, tok \in MoveTokens :
                 LET r == process_move(g, s, c, tok, now)
                     a == SendLoop(r.msgs, broken)
                 IN r.ok =>
                       /\ r.s.history = Append(s.history, tok)
                       /\ r.s.last_move_time = now
                       /\ \A x \in s.client_sockets :
                             \E i \in 1..Len(a) :
                                 /\ a[i].msg.to = x /\ a[i].msg.type = "UPDATE"
                                 /\ a[i].msg.move_history = r.s.history
                                 /\ a[i].msg.time_remaining = r.s.time_remaining

\* A session with two sockets of which the first fails: the first send of
\* a state broadcast fails and the second is still made
C20_Witness ==
    \E g \in DOMAIN game_sessions :
        LET s == game_sessions[g]
            first == Recipients(s)[1]
            a == SendLoop(broadcast_state(g, s), {first})
        IN /\ Cardinality(s.client_sockets) >= 2
           /\ ~a[1].ok /\ a[2].ok
           /\ s.history # <<>>

\* The handler sent every client connected after it a LOBBY_UPDATE whose
\* snapshot is the lobby the handler left
LobbyUpdated(o) ==
    \A c \in o.S.clients :
        \E i \in 1..Len(o.msgs) :
            /\ o.msgs[i].type = "LOBBY_UPDATE"
            /\ o.msgs[i].to = c
            /\ o.msgs[i].games = LobbySnapshot(o.S.lobby)

\* C21: after CREATE_GAME, a successful JOIN_GAME, a LEAVE that changes the
\* lobby or the sessions, and a MOVE that ends the game, the dispatcher has
\* sent a LOBBY_UPDATE to every connected client, and its snapshot holds
\* the status and players the operation left.
C21_LobbyUpdateAfterChange ==
    \A c \in clients :
        LET S == CurrentServer
        IN /\ nextGame < MaxGames
                => LobbyUpdated(on_create_game(S, c, nextGame + 1))
           /\ \A g \in GameIds :
                 (g \in DOMAIN game_sessions /\ join_game(lobby, g, c).ok)
                     => LobbyUpdated(on_join_game(S, c, g, now))
           /\ on_leave(S, c).S # S => LobbyUpdated(on_leave(S, c))
           /\ \A tok \in MoveTokens :
                 LET g == get_game_id(lobby, c)
                     o == on_move(S, c, tok, now)
                 IN (/\ g # None /\ g \in DOMAIN game_sessions
                     /\ process_move(g, game_sessions[g], c, tok, now).ok
                     /\ is_game_over(process_move(g, game_sessions[g], c, tok, now).s.history))
                        => LobbyUpdated(o)

\* Three clients are connected and one of them can play a move that ends
\* its game: the update goes to all three and shows the game finished
C21_Witness ==
    \E c \in clients :
        LET g == get_game_id(lobby, c)
            o == on_move(CurrentServer, c, Uci(MateMove), now)
        IN /\ Cardinality(clients) = 3
           /\ g # None /\ g \in DOMAIN game_sessions
           /\ process_move(g, game_sessions[g], c, Uci(MateMove), now).ok
           /\ LobbyUpdated(o)
           /\ o.S.lobby.games[g].state = "finished"


\* ---------------------------------------------------- the message codec
\* Python values that a message carries, tagged by their type.  A dict is a
\* function on its keys: two dicts are equal when they map the same keys to
\* the same values, as in Python.
PyNone == [t |-> "none"]
PyBool(b) == [t |-> "bool", b |-> b]
PyInt(i) == [t |-> "int", i |-> i]
PyStr(s) == [t |-> "str", s |-> s]
PyList(l) == [t |-> "list", l |-> l]
PyDict(d) == [t |-> "dict", d |-> d]

\* bool(v)
Truthy(v) ==
    CASE v.t = "none" -> FALSE
      [] v.t = "bool" -> v.b
      [] v.t = "int" -> v.i # 0
      [] v.t = "str" -> v.s # ""
      [] v.t = "list" -> v.l # <<>>
      [] v.t = "dict" -> DOMAIN v.d # {}

\* the character of a text at a position, "" past its end
At(s, i) == IF i >= 1 /\ i <= Len(s) THEN SubSeq(s, i, i) ELSE ""
From(s, i) == IF i > Len(s) THEN "" ELSE SubSeq(s, i, Len(s))
StartsWith(s, i, lit) ==
    /\ i + Len(lit) - 1 <= Len(s)
    /\ SubSeq(s, i, i + Len(lit) - 1) = lit
Digits == <<"0", "1", "2", "3", "4", "5", "6", "7", "8", "9">>
IsDigit(c) == \E d \in 1..10 : Digits[d] = c
DigitVal(c) == (CHOOSE d \in 1..10 : Digits[d] = c) - 1

\* a character written as is
ESCAPE_DCT_none(c) == c

\* ESCAPE_DCT of json.encoder: the quote and the backslash are escaped
ESCAPE_DCT(c) ==
    IF c = "\"" THEN "\\\""
    ELSE IF c = "\\" THEN "\\\\"
    ELSE c

\* json.dumps on a str
RECURSIVE py_encode_basestring(_)
py_encode_basestring(s) ==
    IF s = "" THEN ""
    ELSE ESCAPE_DCT(At(s, 1)) \o py_encode_basestring(From(s, 2))

RECURSIVE KeyList(_)
KeyList(K) ==
    IF K = {} THEN <<>>
    ELSE LET k == CHOOSE x \in K : TRUE IN <<k>> \o KeyList(K \ {k})

\* json.dumps with its default separators ", " and ": "
RECURSIVE json_dumps(_)
RECURSIVE dumps_items(_)
RECURSIVE dumps_pairs(_, _)
json_dumps(v) ==
    CASE v.t = "none" -> "null"
      [] v.t = "bool" -> IF v.b THEN "true" ELSE "false"
      [] v.t = "int" -> ToString(v.i)
      [] v.t = "str" -> "\"" \o py_encode_basestring(v.s) \o "\""
      [] v.t = "list" -> "[" \o dumps_items(v.l) \o "]"
      [] v.t = "dict" -> "{" \o dumps_pairs(v.d, KeyList(DOMAIN v.d)) \o "}"
dumps_items(l) ==
    IF l = <<>> THEN ""
    ELSE IF Len(l) = 1 THEN json_dumps(l[1])
    ELSE json_dumps(l[1]) \o ", " \o dumps_items(Tail(l))
dumps_pairs(d, ks) ==
    IF ks = <<>> THEN ""
    ELSE LET one == "\"" \o py_encode_basestring(ks[1]) \o "\": "
                        \o json_dumps(d[ks[1]])
         IN  IF Len(ks) = 1 THEN one
             ELSE one \o ", " \o dumps_pairs(d, Tail(ks))

\* json.loads: a recursive-descent parser.  Every parse returns
\* [ok, v, i]: i is the position after the value.
ParseFail == [ok |-> FALSE]
Parsed(v, i) == [ok |-> TRUE, v |-> v, i |-> i]

RECURSIVE skip_ws(_, _)
skip_ws(s, i) == IF At(s, i) = " " THEN skip_ws(s, i + 1) ELSE i

RECURSIVE scan_int(_, _, _)
scan_int(s, i, acc) ==
    IF IsDigit(At(s, i)) THEN scan_int(s, i + 1, 10 * acc + DigitVal(At(s, i)))
    ELSE Parsed(PyInt(acc), i)

\* the text after an opening quote up to the closing one
RECURSIVE scan_string(_, _, _)
scan_string(s, i, acc) ==
    LET c == At(s, i) IN
    IF c = "" THEN ParseFail
    ELSE IF c = "\"" THEN Parsed(PyStr(acc), i + 1)
    ELSE IF c = "\\"
         THEN IF At(s, i + 1) \in {"\"", "\\"}
              THEN scan_string(s, i + 2, acc \o At(s, i + 1))
              ELSE ParseFail
    ELSE scan_string(s, i + 1, acc \o c)

RECURSIVE parse_value(_, _)
RECURSIVE parse_array(_, _, _)
RECURSIVE parse_object(_, _, _)
parse_value(s, i) ==
    LET c == At(s, i) IN
    IF StartsWith(s, i, "null") THEN Parsed(PyNone, i + 4)
    ELSE IF StartsWith(s, i, "true") THEN Parsed(PyBool(TRUE), i + 4)
    ELSE IF StartsWith(s, i, "false") THEN Parsed(PyBool(FALSE), i + 5)
    ELSE IF c = "0" THEN Parsed(PyInt(0), i + 1)
    ELSE IF IsDigit(c) THEN scan_int(s, i, 0)
    ELSE IF c = "\"" THEN scan_string(s, i + 1, "")
    ELSE IF c = "["
         THEN IF At(s, skip_ws(s, i + 1)) = "]"
              THEN Parsed(PyList(<<>>), skip_ws(s, i + 1) + 1)
              ELSE parse_array(s, skip_ws(s, i + 1), <<>>)
    ELSE IF c = "{"
         THEN IF At(s, skip_ws(s, i + 1)) = "}"
              THEN Parsed(PyDict(EmptyMap), skip_ws(s, i + 1) + 1)
              ELSE parse_object(s, skip_ws(s, i + 1), EmptyMap)
    ELSE ParseFail
\* the elements of a list from position i on, acc those read so far
parse_array(s, i, acc) ==
    LET e == parse_value(s, i) IN
    IF ~e.ok THEN ParseFail
    ELSE LET j == skip_ws(s, e.i) IN
         IF At(s, j) = "," THEN parse_array(s, skip_ws(s, j + 1), Append(acc, e.v))
         ELSE IF At(s, j) = "]" THEN Parsed(PyList(Append(acc, e.v)), j + 1)
         ELSE ParseFail
\* the pairs of an object from position i on; a repeated key keeps its
\* last value
parse_object(s, i, acc) ==
    IF At(s, i) # "\"" THEN ParseFail
    ELSE LET k == scan_string(s, i + 1, "") IN
         IF ~k.ok THEN ParseFail
         ELSE LET j == skip_ws(s, k.i) IN
              IF At(s, j) # ":" THEN ParseFail
              ELSE LET e == parse_value(s, skip_ws(s, j + 1)) IN
                   IF ~e.ok THEN ParseFail
                   ELSE LET n == skip_ws(s, e.i)
                            d == Put(acc, k.v.s, e.v)
                        IN  IF At(s, n) = ","
                            THEN parse_object(s, skip_ws(s, n + 1), d)
                            ELSE IF At(s, n) = "}" THEN Parsed(PyDict(d), n + 1)
                            ELSE ParseFail

\* json.loads: one value, then only white space up to the end
json_loads(s) ==
    LET r == parse_value(s, skip_ws(s, 1)) IN
    IF ~r.ok THEN ParseFail
    ELSE IF skip_ws(s, r.i) # Len(s) + 1 THEN ParseFail
    ELSE r

\* Message.__init__
Message(msg_type, data, client_id) ==
    [msg_type |-> msg_type, data |-> data, client_id |-> client_id]

\* Message.to_json
to_json(m) ==
    LET base == Put(Put(EmptyMap, "msg_type", m.msg_type), "data", m.data)
        message_dict == IF Truthy(m.client_id)
                        THEN Put(base, "client_id", m.client_id)
                        ELSE base
    IN  json_dumps(PyDict(message_dict))

\* Message.from_json: [raised, msg].  A JSONDecodeError or a KeyError is
\* turned into a ValueError; subscripting a value that is not a dict raises
\* a TypeError, which no handler of from_json catches.
Returned(m) == [raised |-> "", msg |-> m]
Raised(e) == [raised |-> e]
from_json(json_str) ==
    LET r == json_loads(json_str) IN
    IF ~r.ok THEN Raised("ValueError")
    ELSE IF r.v.t # "dict" THEN Raised("TypeError")
    ELSE IF "msg_type" \notin DOMAIN r.v.d THEN Raised("ValueError")
    ELSE IF "data" \notin DOMAIN r.v.d THEN Raised("ValueError")
    ELSE Returned(Message(r.v.d["msg_type"], r.v.d["data"],
                          IF "client_id" \in DOMAIN r.v.d
                          THEN r.v.d["client_id"] ELSE PyNone))


\* ------------------------------------------ a connection and its codec
\* The message types of the catalogue
MessageTypes ==
    {"SET_USERNAME", "SET_USERNAME_ACK", "CREATE_GAME", "JOIN_GAME",
     "SPECTATE", "LEAVE", "GET_GAMES", "MOVE", "CHAT", "UPDATE",
     "GAME_STARTED", "GAME_OVER", "ERROR", "LOBBY_UPDATE", "WELCOME"}

Dict1(k, v) == PyDict(Put(EmptyMap, k, v))
Dict2(k1, v1, k2, v2) == PyDict(Put(Put(EmptyMap, k1, v1), k2, v2))

\* Payloads of the shapes the server and the client build: flat and nested
\* dicts with string keys, lists of strings, numbers, booleans, None, and a
\* chat text that holds a quote and a backslash.
Payloads ==
    { PyDict(EmptyMap),
      Dict2("game_id", PyStr("g1"), "role", PyStr("white")),
      Dict2("success", PyBool(TRUE), "username", PyStr("al")),
      Dict1("message", PyStr("a\"b\\c")),
      Dict1("move", PyStr("e7e8q")),
      Dict1("games",
            Dict1("g1", Dict2("status", PyStr("waiting"),
                              "players", PyList(<<PyStr("al"), PyStr("Unknown")>>)))),
      Dict2("time_remaining", Dict2("white", PyInt(120), "black", PyInt(0)),
            "result", PyNone),
      Dict2("move_history", PyList(<<>>), "is_check", PyBool(FALSE)) }

OriginIds == {PyNone, PyStr(""), PyStr("c1")}

\* The messages a peer builds and encodes
BuiltMessages ==
    { Message(PyStr(ty), d, o) : ty \in MessageTypes, d \in Payloads, o \in OriginIds }

\* Frames a peer can send that no encoder produced: broken JSON, JSON that
\* is no object, objects without msg_type or without data, and one
\* well-formed message written by hand.
HandTexts ==
    { "", "{", "nul", "{\"msg_type\": \"MOVE\"", "{\"msg_type\" \"MOVE\"}",
      "[]", "[1, 2]", "5", "null", "\"MOVE\"", "{}",
      "{\"msg_type\": \"MOVE\"}", "{\"data\": {}}",
      "{\"msg_type\": \"MOVE\", \"data\": {}} x",
      "{\"data\": {\"move\": \"e2e4\"}, \"msg_type\": \"MOVE\"}" }

NoMessage == [msg_type |-> PyNone, data |-> PyNone, client_id |-> PyNone]
NotDecoded == Raised("pending")

\* the Error that handle_client sends for a ValueError
InvalidFormatMsg == Message(PyStr("ERROR"), Dict1("message", PyStr("Invalid message format")), PyNone)

\* The state of the chess server with nothing connected
Untouched ==
    /\ now = 0
    /\ clients = {}
    /\ nextClient = 0
    /\ lobby = NewLobby
    /\ nextGame = 0
    /\ game_sessions = EmptyMap
    /\ sent = <<>>
    /\ threads = NoThreads
ServerFrame ==
    UNCHANGED <<now, clients, nextClient, lobby, nextGame, game_sessions, sent, threads>>

\* A peer holds a message to encode, or a hand-written text to send
CodecInit ==
    /\ Untouched
    /\ \/ \E m \in BuiltMessages :
             wire = [pc |-> "built", msg |-> m, text |-> "",
                     result |-> NotDecoded, reply |-> <<>>, open |-> TRUE]
       \/ \E t \in HandTexts :
             wire = [pc |-> "received", msg |-> NoMessage, text |-> t,
                     result |-> NotDecoded, reply |-> <<>>, open |-> TRUE]

\* send_message / Client.send_message: the message is encoded and the text
\* reaches the worker of the connection
Encode ==
    /\ wire.pc = "built"
    /\ wire' = [wire EXCEPT !.pc = "received", !.text = to_json(wire.msg)]
    /\ ServerFrame

\* One iteration of the receive loop of handle_client on the text read
handle_client_iteration(w) ==
    IF w.text = ""
    THEN [w EXCEPT !.pc = "closed", !.open = FALSE]
    ELSE LET r == from_json(w.text) IN
         IF r.raised = ""
         THEN [w EXCEPT !.pc = "served", !.result = r]
         ELSE IF r.raised = "ValueError"
         THEN [w EXCEPT !.pc = "served", !.result = r,
                        !.reply = <<InvalidFormatMsg>>]
         ELSE [w EXCEPT !.pc = "closed", !.result = r, !.open = FALSE]

Serve ==
    /\ wire.pc = "received"
    /\ wire' = handle_client_iteration(wire)
    /\ ServerFrame

\* The loop of handle_client goes round: the next frame of the peer
NextFrame ==
    /\ wire.pc = "served"
    /\ wire.open
    /\ \E t \in HandTexts :
          wire' = [pc |-> "received", msg |-> NoMessage, text |-> t,
                   result |-> NotDecoded, reply |-> <<>>, open |-> TRUE]
    /\ ServerFrame

CodecNext == Encode \/ Serve \/ NextFrame

CodecSpec == CodecInit /\ [][CodecNext]_vars

\* C22: a message of any type of the catalogue whose data is a mapping with
\* string keys, encoded with to_json and decoded with from_json, comes back
\* as a Message with the same type and the same data.
C22_RoundTrip ==
    (wire.pc \in {"served", "closed"} /\ wire.msg # NoMessage)
        => /\ wire.result.raised = ""
           /\ wire.result.msg.msg_type = wire.msg.msg_type
           /\ wire.result.msg.data = wire.msg.data

C22_Witness ==
    /\ wire.pc = "served"
    /\ wire.msg # NoMessage
    /\ wire.msg.msg_type = PyStr("CHAT")
    /\ wire.msg.data = Dict1("message", PyStr("a\"b\\c"))
    /\ wire.result.raised = ""
    /\ wire.result.msg.data = wire.msg.data


\* A text that is no JSON, or whose JSON value has no msg_type or no data
Malformed(text) ==
    LET r == json_loads(text) IN
    \/ ~r.ok
    \/ r.v.t # "dict"
    \/ "msg_type" \notin DOMAIN r.v.d
    \/ "data" \notin DOMAIN r.v.d

\* C23: for every input text that is invalid or lacks the type or the data
\* field, from_json fails with ValueError and yields no Message, and the
\* worker answers with an Error and keeps serving the connection.
C23_MalformedAnswered ==
    (wire.pc \in {"served", "closed"} /\ Malformed(wire.text))
        => /\ wire.result = Raised("ValueError")
           /\ wire.reply = <<InvalidFormatMsg>>
           /\ wire.open


\* --------------------------------------------------- the framed stream
\* A str is a sequence of code points, bytes are numbers below 256.
MaxPayload == 2
BUFFER_SIZE == 4096
CodePoints == {97, 233}

Min(a, b) == IF a <= b THEN a ELSE b
Take(s, n) == SubSeq(s, 1, Min(n, Len(s)))
Drop(s, n) == SubSeq(s, Min(n, Len(s)) + 1, Len(s))

\* str.encode('utf-8') for code points below 2048
RECURSIVE utf8_encode(_)
utf8_encode(str) ==
    IF str = <<>> THEN <<>>
    ELSE LET cp == Head(str) IN
         (IF cp < 128 THEN <<cp>>
          ELSE <<192 + (cp \div 64), 128 + (cp % 64)>>) \o utf8_encode(Tail(str))

\* bytes.decode('utf-8'): [ok, str]; ok is FALSE for a UnicodeDecodeError
RECURSIVE utf8_decode(_, _)
utf8_decode(bytes, acc) ==
    IF bytes = <<>> THEN [ok |-> TRUE, str |-> acc]
    ELSE LET b == Head(bytes) IN
         IF b < 128 THEN utf8_decode(Tail(bytes), Append(acc, b))
         ELSE IF /\ b >= 194 /\ b < 224 /\ Len(bytes) >= 2
                 /\ bytes[2] >= 128 /\ bytes[2] < 192
              THEN utf8_decode(Drop(bytes, 2),
                               Append(acc, (b - 192) * 64 + (bytes[2] - 128)))
              ELSE [ok |-> FALSE, str |-> <<>>]

\* int.to_bytes(4, byteorder='big') and int.from_bytes(.., byteorder='big')
to_bytes(n) ==
    <<(n \div 16777216) % 256, (n \div 65536) % 256, (n \div 256) % 256, n % 256>>
from_bytes(b) == ((b[1] * 256 + b[2]) * 256 + b[3]) * 256 + b[4]

\* send_data: the bytes handed to sendall
send_data_bytes(data) ==
    LET data_bytes == utf8_encode(data) IN to_bytes(Len(data_bytes)) \o data_bytes

\* The texts a peer sends
RECURSIVE StrsUpTo(_)
StrsUpTo(n) ==
    IF n = 0 THEN {<<>>}
    ELSE LET S == StrsUpTo(n - 1) IN
         S \cup {Append(s, cp) : s \in {x \in S : Len(x) = n - 1}, cp \in CodePoints}
FramePayloads == StrsUpTo(MaxPayload)

\* the locals of receive_data before its first recv
RxStart == [pc |-> "header", length |-> 0, data |-> <<>>]

\* One connection towards the server: the peer's text, the bytes still in
\* the network (pending), the bytes arrived and not yet read (buffer),
\* whether the peer has closed, how many bytes of its frame the peer wrote
\* (written), the locals of receive_data (rx), its return value (ret) and
\* whether the worker is still serving (open).
FrameInit ==
    /\ Untouched
    /\ \E p \in FramePayloads :
          wire = [pc |-> "idle", payload |-> p, pending |-> <<>>, buffer |-> <<>>,
                  closed |-> FALSE, written |-> 0, rx |-> RxStart,
                  ret |-> <<>>, open |-> TRUE]

\* send_data on the peer's side: the whole frame is written
SendFrame ==
    /\ wire.pc = "idle"
    /\ ~wire.closed
    /\ LET f == send_data_bytes(wire.payload) IN
       wire' = [wire EXCEPT !.pc = "sent", !.pending = f, !.written = Len(f)]
    /\ ServerFrame

\* The peer goes away: before it wrote anything, after its whole frame, or
\* with only the first k bytes of the frame written
Hangup ==
    /\ ~wire.closed
    /\ \/ /\ wire.pc = "idle"
          /\ \E k \in 0..(Len(send_data_bytes(wire.payload)) - 1) :
                wire' = [wire EXCEPT !.pc = "sent", !.closed = TRUE, !.written = k,
                                     !.pending = Take(send_data_bytes(wire.payload), k)]
       \/ /\ wire.pc = "sent"
          /\ wire' = [wire EXCEPT !.closed = TRUE]
    /\ ServerFrame

\* The transport hands the next k bytes to the receiving socket
Deliver ==
    /\ \E k \in 1..Len(wire.pending) :
          wire' = [wire EXCEPT !.buffer = wire.buffer \o Take(wire.pending, k),
                               !.pending = Drop(wire.pending, k)]
    /\ ServerFrame

\* socket.recv(n) can return: bytes are there, or the stream has ended
CanRecv == wire.buffer # <<>> \/ (wire.closed /\ wire.pending = <<>>)
\* socket.recv(n): up to n of the bytes arrived, b"" at the end of the stream
recv(n) == Take(wire.buffer, n)

\* receive_data returns: handle_client leaves its loop on an empty value
Return(w, value) ==
    [w EXCEPT !.rx = [w.rx EXCEPT !.pc = "done"], !.ret = value,
              !.open = (value # <<>>)]

\* the end of receive_data: data.decode('utf-8'), "" when it raises
Decoded(w, data) ==
    LET d == utf8_decode(data, <<>>) IN
    Return(w, IF d.ok THEN d.str ELSE <<>>)

\* receive_data from its first recv to the start of the body loop, on the
\* bytes that recv(4) returned
receive_data_header(w, length_bytes) ==
    IF length_bytes = <<>> THEN Return(w, <<>>)
    ELSE IF Len(length_bytes) # 4 THEN Return(w, <<>>)
    ELSE IF from_bytes(length_bytes) = 0 THEN Decoded(w, <<>>)
    ELSE [w EXCEPT !.rx = [pc |-> "body",
                           length |-> from_bytes(length_bytes),
                           data |-> <<>>]]

\* receive_data, the length prefix
RecvHeader ==
    /\ wire.rx.pc = "header"
    /\ CanRecv
    /\ wire' = receive_data_header([wire EXCEPT !.buffer = Drop(wire.buffer, 4)],
                                   recv(4))
    /\ ServerFrame

\* receive_data, one round of the loop that reads the body
RecvBody ==
    /\ wire.rx.pc = "body"
    /\ CanRecv
    /\ LET n == Min(wire.rx.length - Len(wire.rx.data), BUFFER_SIZE)
           chunk == recv(n)
           data == wire.rx.data \o chunk
           w == [wire EXCEPT !.buffer = Drop(wire.buffer, n), !.rx.data = data]
       IN  wire' =
             IF chunk = <<>> THEN Return(wire, <<>>)
             ELSE IF Len(data) < wire.rx.length THEN w
             ELSE Decoded(w, data)
    /\ ServerFrame

FrameNext == SendFrame \/ Hangup \/ Deliver \/ RecvHeader \/ RecvBody

FrameSpec == FrameInit /\ [][FrameNext]_vars

\* the peer wrote its whole frame
WholeFrame == wire.pc = "sent" /\ wire.written = Len(send_data_bytes(wire.payload))

\* C24: whatever chunks the transport delivers, receive_data returns
\* exactly the text that send_data framed.
C24_FrameRoundTrip ==
    (wire.pc = "sent" /\ WholeFrame /\ wire.rx.pc = "done")
        => wire.ret = wire.payload


\* the peer closed with the header written and the body cut short
ClosedInBody ==
    /\ wire.closed
    /\ wire.written >= 4
    /\ wire.written < Len(send_data_bytes(wire.payload))

\* what receive_data returns when the stream ends before any byte
CleanEofValue == receive_data_header(wire, <<>>).ret

\* C25: when the connection closes after a complete length header and
\* before the whole body, receive_data returns a value that differs from
\* the one of a clean end of stream and from every text a frame can carry.
C25_ShortBodySignalled ==
    (ClosedInBody /\ wire.rx.pc = "done" /\ wire.rx.length > 0)
        => /\ wire.ret # CleanEofValue
           /\ wire.ret \notin FramePayloads


\* ------------------------------------------------ the result of a game
\* The clock values get_result can meet: negative, zero and positive
ResultClocks == -1..MaxTime

\* A session's board flags and clocks, any combination of them
ResultInit ==
    /\ Untouched
    /\ \E cm \in BOOLEAN, sm \in BOOLEAN, im \in BOOLEAN, t \in {WHITE, BLACK},
          w \in ResultClocks, b \in ResultClocks :
          wire = [pc |-> "position", is_checkmate |-> cm, is_stalemate |-> sm,
                  is_insufficient_material |-> im, turn |-> t,
                  time_remaining |-> Put(Put(EmptyMap, WHITE, w), BLACK, b),
                  result |-> ""]

\* get_result is called
GetResult ==
    /\ wire.pc = "position"
    /\ wire' = [wire EXCEPT !.pc = "result",
                    !.result = get_result_on(wire.is_checkmate, wire.turn,
                                             wire.is_stalemate,
                                             wire.is_insufficient_material,
                                             wire.time_remaining)]
    /\ ServerFrame

ResultNext == GetResult

ResultSpec == ResultInit /\ [][ResultNext]_vars

\* the result in favour of a color
WonBy(color) == IF color = WHITE THEN "1-0" ELSE "0-1"

\* C26: get_result gives the win to the side not to move on checkmate;
\* otherwise a draw on stalemate or insufficient material; otherwise the
\* win to the other color when a color's time is at or below zero;
\* otherwise a draw.
C26_ResultPriority ==
    wire.pc = "result" =>
        IF wire.is_checkmate
        THEN wire.result = WonBy(Other(wire.turn))
        ELSE IF wire.is_stalemate \/ wire.is_insufficient_material
        THEN wire.result = "1/2-1/2"
        ELSE IF \E c \in {WHITE, BLACK} : wire.time_remaining[c] <= 0
        THEN \E c \in {WHITE, BLACK} :
                wire.time_remaining[c] <= 0 /\ wire.result = WonBy(Other(c))
        ELSE wire.result = "1/2-1/2"

C26_Witness ==
    /\ wire.pc = "result"
    /\ ~wire.is_checkmate
    /\ wire.is_stalemate
    /\ wire.time_remaining[WHITE] <= 0
    /\ wire.result = "1/2-1/2"


\* the games of a lobby that wait and have fewer than two players
Joinable(L) ==
    {g \in DOMAIN L.games : L.games[g].state = "waiting" /\ Len(L.games[g].players) < 2}

\* all games but g are the same in two lobbies
SameBut(L1, L2, g) ==
    /\ DOMAIN L1.games \ {g} = DOMAIN L2.games \ {g}
    /\ \A h \in DOMAIN L1.games \ {g} : L1.games[h] = L2.games[h]

\* C27: join_random_game(p) adds p to a waiting game with fewer than two
\* players when there is one, creates no game then and returns that game's
\* id; only when there is none it creates a waiting game with p as its sole
\* player; which game is chosen depends on the lobby alone, not on p.
C27_JoinRandomGame ==
    \A p \in ClientIds :
        LET r == join_random_game(lobby, nextGame + 1, p) IN
        IF Joinable(lobby) # {}
        THEN /\ r.game \in Joinable(lobby)
             /\ DOMAIN r.lobby.games = DOMAIN lobby.games
             /\ r.lobby.games[r.game].players
                    = Append(lobby.games[r.game].players, p)
             /\ r.lobby.player_game_map[p] = r.game
             /\ SameBut(lobby, r.lobby, r.game)
             /\ \A q \in ClientIds :
                   join_random_game(lobby, nextGame + 1, q).game = r.game
        ELSE /\ r.game \notin DOMAIN lobby.games
             /\ DOMAIN r.lobby.games = DOMAIN lobby.games \cup {r.game}
             /\ r.lobby.games[r.game] = Game(WAITING, <<p>>, {})
             /\ r.lobby.player_game_map[p] = r.game
             /\ SameBut(lobby, r.lobby, r.game)

C27_Witness ==
    /\ Cardinality(Joinable(lobby)) = 2
    /\ \E p \in ClientIds :
          LET r == join_random_game(lobby, nextGame + 1, p) IN
          /\ p \notin DOMAIN lobby.player_game_map
          /\ r.game = 1
          /\ r.lobby.games[1].state = "playing"
          /\ r.lobby.games[2] = lobby.games[2]


\* C28: once the handler or clock iteration that ended a session (a
\* terminal move, a timeout, a forfeit) has completed, the lobby lists the
\* game as finished, never as playing.
C28_EndedGameFinished ==
    \A g \in DOMAIN game_sessions :
        (game_sessions[g].end_time # None /\ g \in DOMAIN lobby.games)
            => lobby.games[g].state = FINISHED


\* -------------------------------------- lobby.join_game, step by step
\* Connection threads inside the JOIN_GAME handler.  lobby.join_game takes
\* no lock, so the threads interleave between its statements; players is
\* the list object of the game's tuple, shared by every caller.
Joiner(c) == threads.joiner[c]
SetJoiner(c, j) == threads' = [threads EXCEPT !.joiner[c] = j]
JoinFrame == sent' = <<>> /\ UNCHANGED <<wire, now, clients, nextClient, nextGame>>

\* server.py 120-124 and lobby.py 30-36: the game is looked up, its tuple
\* is unpacked and the state is tested
JoinEnter(c, g) ==
    /\ c \in clients
    /\ Joiner(c).pc = "idle"
    /\ g \in DOMAIN game_sessions
    /\ SetJoiner(c, IF g \notin DOMAIN lobby.games \/ lobby.games[g].state # WAITING
                    THEN [pc |-> "returned", game |-> g, ok |-> FALSE, added |-> FALSE]
                    ELSE [pc |-> "len", game |-> g])
    /\ JoinFrame
    /\ UNCHANGED <<lobby, game_sessions>>

\* lobby.py 37-39: if len(players) >= 2: return False
JoinLen(c) ==
    LET j == Joiner(c) IN
    /\ j.pc = "len"
    /\ SetJoiner(c, IF Len(lobby.games[j.game].players) >= 2
                    THEN [pc |-> "returned", game |-> j.game, ok |-> FALSE, added |-> FALSE]
                    ELSE [j EXCEPT !.pc = "append"])
    /\ JoinFrame
    /\ UNCHANGED <<lobby, game_sessions>>

\* lobby.py 40: players.append(player_id)
JoinAppend(c) ==
    LET j == Joiner(c) IN
    /\ j.pc = "append"
    /\ lobby' = [lobby EXCEPT !.games[j.game].players = Append(@, c)]
    /\ SetJoiner(c, [j EXCEPT !.pc = "map"])
    /\ JoinFrame
    /\ UNCHANGED game_sessions

\* lobby.py 41: self.player_game_map[player_id] = game_id
JoinMap(c) ==
    LET j == Joiner(c) IN
    /\ j.pc = "map"
    /\ lobby' = [lobby EXCEPT !.player_game_map = Put(@, c, j.game)]
    /\ SetJoiner(c, [j EXCEPT !.pc = "promote"])
    /\ JoinFrame
    /\ UNCHANGED game_sessions

\* lobby.py 42-46: the game becomes PLAYING when the list has two entries;
\* return True
JoinPromote(c) ==
    LET j == Joiner(c) IN
    /\ j.pc = "promote"
    /\ lobby' = IF Len(lobby.games[j.game].players) = 2
                THEN [lobby EXCEPT !.games[j.game].state = PLAYING]
                ELSE lobby
    /\ SetJoiner(c, [pc |-> "returned", game |-> j.game, ok |-> TRUE, added |-> TRUE])
    /\ JoinFrame
    /\ UNCHANGED game_sessions

\* server.py 126-163: the rest of the handler on the value join_game
\* returned
JoinFinish(c) ==
    LET j == Joiner(c)
        o == IF j.ok THEN on_join_game_joined(CurrentServer, c, j.game, now)
             ELSE Out(CurrentServer, <<ErrorMsg(c, "Cannot join game")>>)
    IN /\ j.pc = "returned"
       /\ Install(o, FALSE)
       /\ SetJoiner(c, [pc |-> "done", game |-> j.game, ok |-> j.ok, added |-> j.added])
       /\ UNCHANGED <<wire, now, nextClient, nextGame>>

JoinSteps ==
    \/ \E c \in ClientIds, g \in GameIds : JoinEnter(c, g)
    \/ \E c \in ClientIds : JoinLen(c)
    \/ \E c \in ClientIds : JoinAppend(c)
    \/ \E c \in ClientIds : JoinMap(c)
    \/ \E c \in ClientIds : JoinPromote(c)
    \/ \E c \in ClientIds : JoinFinish(c)

\* Clients connect, one game is created, and the JOIN_GAME handlers of the
\* clients run statement by statement, each client sending one JOIN_GAME.
JoinRaceNext ==
    /\ \/ Connect(FALSE)
       \/ \E c \in ClientIds : Joiner(c).pc = "idle" /\ CreateGame(c, FALSE)
       \/ JoinSteps
    /\ nextGame' <= PlayGames

JoinRaceSpec == Init /\ [][JoinRaceNext]_vars

\* no JOIN_GAME handler is inside join_game
JoinsReturned == \A c \in ClientIds : Joiner(c).pc \in {"idle", "returned", "done"}

\* C29: however the concurrent join_game calls on a waiting game
\* interleave, when they have returned the game has at most two players,
\* the calls that returned True are exactly those that added a player, and
\* the game is playing if and only if it has two players.
C29_ConcurrentJoins ==
    JoinsReturned =>
        \A g \in DOMAIN lobby.games :
            /\ Len(lobby.games[g].players) <= 2
            /\ \A c \in ClientIds :
                  Joiner(c).pc \in {"returned", "done"} => Joiner(c).ok = Joiner(c).added
            /\ lobby.games[g].state = PLAYING <=> Len(lobby.games[g].players) = 2


\* C30: a session's clock thread is started at most once, and only by the
\* join that brings the session to two players.
C30_OneClockThread ==
    [][\A g \in DOMAIN game_sessions :
          (g \in DOMAIN game_sessions'
           /\ game_sessions'[g].clock_threads > game_sessions[g].clock_threads)
              => /\ game_sessions[g].clock_threads = 0
                 /\ Cardinality(DOMAIN game_sessions[g].player_roles) = 1
                 /\ Cardinality(DOMAIN game_sessions'[g].player_roles) = 2]_vars


C32_OnlyMoverClockRuns ==
    [][\A g \in DOMAIN game_sessions :
          g \in DOMAIN game_sessions' =>
              \A color \in {WHITE, BLACK} :
                  game_sessions'[g].time_remaining[color]
                      < game_sessions[g].time_remaining[color]
                  => /\ color = Turn(game_sessions[g].history)
                     /\ game_sessions[g].start_time # None
                     /\ ~Ended(g)]_vars

\* ------------------------------------------------------------------ C33
\* Tokens of the promotion form, one for each promotion letter
PromotionTokens == {"e7e8q", "e7e8r", "e7e8b", "e7e8n"}

\* The token has the form of a move: two distinct squares, or two squares
\* and one of the promotion letters q, r, b, n
Parses(tok) ==
    /\ tok # MissingMove
    /\ \/ /\ Len(tok) = 4
          /\ SubSeq(tok, 1, 2) \in SQUARE_NAMES
          /\ SubSeq(tok, 3, 4) \in SQUARE_NAMES
          /\ SubSeq(tok, 1, 2) # SubSeq(tok, 3, 4)
       \/ /\ Len(tok) = 5
          /\ SubSeq(tok, 1, 2) \in SQUARE_NAMES
          /\ SubSeq(tok, 3, 4) \in SQUARE_NAMES
          /\ SubSeq(tok, 5, 5) \in {"q", "r", "b", "n"}

\* The move a token of that form names
MoveOf(tok) ==
    Move(SubSeq(tok, 1, 2), SubSeq(tok, 3, 4),
         IF Len(tok) = 5 THEN SubSeq(tok, 5, 5) ELSE "")

\* C33: process_move classifies failures in the order NotAPlayer, WrongTurn,
\* MalformedMove, IllegalMove: a caller without a role fails as NotAPlayer
\* and a player not on turn as WrongTurn whatever the token; for the player
\* on turn a token that parses (a promotion token with one of q, r, b, n
\* included) and is not a legal move fails as IllegalMove with the error
\* "That move is not legal", and a token that does not parse never does.
C33_FailureOrder ==
    \A g \in DOMAIN game_sessions, c \in ClientIds,
       tok \in MoveTokens \cup PromotionTokens :
        LET s == game_sessions[g]
            r == process_move(g, s, c, tok, now)
            onturn == HasRole(s, c) /\ s.player_roles[c] = Turn(s.history)
        IN /\ ~HasRole(s, c) => (~r.ok /\ r.why = "NotAPlayer")
           /\ (HasRole(s, c) /\ ~onturn) => (~r.ok /\ r.why = "WrongTurn")
           /\ (onturn /\ Parses(tok) /\ MoveOf(tok) \notin legal_moves(s.history))
                => /\ ~r.ok
                   /\ r.why = "IllegalMove"
                   /\ c \in s.client_sockets
                        => r.msgs = <<ErrorMsg(c, "That move is not legal")>>
           /\ (onturn /\ ~Parses(tok))
                => (~r.ok /\ r.why \in {"MalformedMove", "Exception"})

\* With a move played, the player on turn sends a knight promotion that is
\* not legal and the other player sends a message without a move
C33_Witness ==
    \E g \in DOMAIN game_sessions, a, b \in clients :
        LET s == game_sessions[g]
        IN /\ Len(s.history) >= 1
           /\ HasRole(s, a) /\ s.player_roles[a] # Turn(s.history)
           /\ HasRole(s, b) /\ s.player_roles[b] = Turn(s.history)
           /\ process_move(g, s, b, "e7e8n", now).why = "IllegalMove"
           /\ process_move(g, s, a, MissingMove, now).why = "WrongTurn"

\* ------------------------------------------------------------------ C34
\* Every role of the session is held by at most one client
OneHolderEach(s) ==
    \A color \in {WHITE, BLACK} : Cardinality(RoleHolders(s, color)) <= 1

\* add_player called for a client that has no role in the session
AddsNewPlayer(s, c) ==
    LET r == add_player(s, c)
    IN /\ RoleHolders(s, WHITE) = {}
            => /\ r.role = WHITE
               /\ r.s.player_roles = Put(s.player_roles, c, WHITE)
       /\ (RoleHolders(s, WHITE) # {} /\ RoleHolders(s, BLACK) = {})
            => /\ r.role = BLACK
               /\ r.s.player_roles = Put(s.player_roles, c, BLACK)
       /\ (RoleHolders(s, WHITE) # {} /\ RoleHolders(s, BLACK) # {})
            => /\ r.role = ""
               /\ r.s.player_roles = s.player_roles
               /\ r.s.client_sockets = s.client_sockets

\* C34: add_player gives WHITE to a new client when no one holds it, else
\* BLACK when no one holds it, and otherwise returns "" and leaves the role
\* map and the socket map as they were; the call never changes the color of
\* a player of the session, no color has two holders, and from one state to
\* the next a client that stays in a session keeps its color.
C34_AddPlayer ==
    /\ [](\A g \in DOMAIN game_sessions, c \in ClientIds :
            LET s == game_sessions[g]
                r == add_player(s, c)
            IN /\ OneHolderEach(s)
               /\ OneHolderEach(r.s)
               /\ ~HasRole(s, c) => AddsNewPlayer(s, c)
               /\ \A p \in DOMAIN s.player_roles :
                     /\ p \in DOMAIN r.s.player_roles
                     /\ r.s.player_roles[p] = s.player_roles[p]
               /\ HasRole(s, c) => r.role = s.player_roles[c])
    /\ [][\A g \in DOMAIN game_sessions :
             g \in DOMAIN game_sessions' =>
                 \A p \in DOMAIN game_sessions[g].player_roles :
                     p \in DOMAIN game_sessions'[g].player_roles
                         => game_sessions'[g].player_roles[p]
                                = game_sessions[g].player_roles[p]]_vars

\* A session with a white and a black player and a third connected client,
\* whose add_player is refused
C34_Witness ==
    \E g \in DOMAIN game_sessions, c \in clients :
        LET s == game_sessions[g]
        IN /\ RoleHolders(s, WHITE) # {}
           /\ RoleHolders(s, BLACK) # {}
           /\ ~HasRole(s, c)
           /\ add_player(s, c).role = ""

\* ------------------------------------------------------------------ C35
\* C35: no move is applied to a session's board before its second player
\* has joined and start_game has run: a board with a move played belongs to
\* a started session, and while the lobby lists the game as waiting every
\* process_move is rejected and leaves the history as it was.
C35_NoMoveBeforeStart ==
    \A g \in DOMAIN game_sessions :
        LET s == game_sessions[g]
        IN /\ Len(s.history) > 0 => s.start_time # None
           /\ (s.start_time = None
               /\ g \in DOMAIN lobby.games /\ lobby.games[g].state = WAITING)
                => \A c \in ClientIds, tok \in MoveTokens :
                       LET r == process_move(g, s, c, tok, now)
                       IN ~r.ok /\ r.s.history = s.history

\* ------------------------------------------------------------------ C36
\* C36: a lobby game's player list never holds the same client id twice,
\* and a JOIN_GAME by a client that is already a player of the game neither
\* adds the client a second time nor starts the game.
C36_NoDuplicatePlayer ==
    /\ \A g \in DOMAIN lobby.games :
          \A i, j \in 1..Len(lobby.games[g].players) :
              lobby.games[g].players[i] = lobby.games[g].players[j] => i = j
    /\ \A g \in DOMAIN lobby.games, p \in clients :
          InSeq(p, lobby.games[g].players) =>
              LET o == on_join_game(CurrentServer, p, g, now)
              IN /\ o.S.lobby.games[g].players = lobby.games[g].players
                 /\ g \in DOMAIN game_sessions
                      => o.S.game_sessions[g].start_time
                             = game_sessions[g].start_time

\* ------------------------------------------------------------------ C37
\* The CREATE_GAME and JOIN_GAME replies among the messages of a handler
\* carry the color the session holds for the client they go to
RepliesMatch(o) ==
    \A i \in 1..Len(o.msgs) :
        o.msgs[i].type \in {"CREATE_GAME", "JOIN_GAME"} =>
            LET g == o.msgs[i].game
                c == o.msgs[i].to
            IN /\ g \in DOMAIN o.S.game_sessions
               /\ c \in DOMAIN o.S.game_sessions[g].player_roles
               /\ o.S.game_sessions[g].player_roles[c] = o.msgs[i].role

\* C37: the role in a CREATE_GAME or JOIN_GAME reply equals the color the
\* session has assigned to the client, and a session that has been started
\* by the JOIN_GAME handler holds two distinct players, one WHITE and one
\* BLACK.
C37_ReplyRoleAndTwoPlayers ==
    \A c \in clients :
        /\ nextGame < MaxGames
             => RepliesMatch(on_create_game(CurrentServer, c, nextGame + 1))
        /\ \A g \in GameIds :
              LET o == on_join_game(CurrentServer, c, g, now)
              IN /\ RepliesMatch(o)
                 /\ (g \in DOMAIN game_sessions
                     /\ game_sessions[g].start_time = None
                     /\ o.S.game_sessions[g].start_time # None)
                      => \E w, b \in ClientIds :
                            /\ w # b
                            /\ RoleHolders(o.S.game_sessions[g], WHITE) = {w}
                            /\ RoleHolders(o.S.game_sessions[g], BLACK) = {b}

\* ------------------------------------------------------------------ C38
\* The session has ended with a decisive result: end_time is recorded
\* together with the GAME_OVER broadcast that reports get_result
DecidedResult(g) ==
    /\ game_sessions[g].end_time # None
    /\ get_result(game_sessions[g]) \in {"1-0", "0-1"}

\* The UPDATE and GAME_OVER messages about game g report this result
ReportOnly(msgs, g, result) ==
    \A i \in 1..Len(msgs) :
        (msgs[i].type \in {"UPDATE", "GAME_OVER"} /\ msgs[i].game = g)
            => msgs[i].result = result

\* C38: once GAME_OVER with a decisive result has been broadcast for a
\* session, every later UPDATE or GAME_OVER of the session reports the same
\* result, whichever message the server handles next.
C38_ResultStable ==
    \A g \in DOMAIN game_sessions :
        DecidedResult(g) =>
            LET result == get_result(game_sessions[g])
            IN \A c \in clients :
                  /\ \A tok \in MoveTokens :
                        ReportOnly(on_move(CurrentServer, c, tok, now).msgs,
                                   g, result)
                  /\ ReportOnly(on_spectate(CurrentServer, c, g).msgs, g, result)
                  /\ ReportOnly(on_leave(CurrentServer, c).msgs, g, result)

\* ------------------------------------------------------------------ C39
\* The GAME_OVER messages to client p among the messages of a handler
GameOversTo(msgs, p) ==
    {i \in 1..Len(msgs) : msgs[i].type = "GAME_OVER" /\ msgs[i].to = p}

\* C39: when a game ends, by a move that reaches a terminal position or by
\* the clock thread finding the side to move out of time, every participant
\* of the session is sent GAME_OVER exactly once.
C39_GameOverOnce ==
    /\ \A c \in clients, tok \in MoveTokens :
          Routed(c) =>
              LET g == get_game_id(lobby, c)
                  s == game_sessions[g]
                  o == on_move(CurrentServer, c, tok, now)
              IN (~is_game_over(s.history)
                  /\ is_game_over(o.S.game_sessions[g].history))
                    => \A p \in Participants(s) :
                          Cardinality(GameOversTo(o.msgs, p)) = 1
    /\ \A g \in DOMAIN game_sessions :
          LET s == game_sessions[g]
              r == time_control_tick(g, s, now)
          IN (ClockAlive(s) /\ r.s.end_time # None)
                => \A p \in Participants(s) :
                      Cardinality(GameOversTo(r.msgs, p)) = 1

\* ------------------------------------------------------------------ C40
\* The game ids the lobby's maps refer to: the values of the player map and
\* of the two spectator maps and the keys of the per-game spectator sets
ReferredGames(L) ==
    {L.player_game_map[c] : c \in DOMAIN L.player_game_map}
        \cup {L.client_game_map[c] : c \in DOMAIN L.client_game_map}
        \cup {L.spectator_game_map[c] : c \in DOMAIN L.spectator_game_map}
        \cup DOMAIN L.spectators

\* C40: in every reachable lobby state, every game id held in the lobby's
\* client-to-game maps and every key of the per-game spectator sets is a key
\* of the game table: deleting a game leaves no entry referring to it.
C40_MapsReferToGames ==
    ReferredGames(lobby) \subseteq DOMAIN lobby.games

=============================================================================
